---- MODULE Spec2Model ----
(***************************************************************************)
(* Frame-buffer compositing and rendering core of anim-in-terminal.        *)
(*                                                                         *)
(* Two specifications share the variables below.                           *)
(*   Spec      drives the buffer operations of one scene package           *)
(*             (cybercube's gridBuffer, rain's and tunnel's [][]cell) with *)
(*             arbitrary arguments, one call per step.                     *)
(*   SpecLoop  is cybercube.Run: the tick loop, the terminal session of    *)
(*             term.Start and its signal goroutine.                        *)
(*                                                                         *)
(* Bytes are modelled as strings: a glyph byte is a one-character string,  *)
(* an escape sequence is the string the source writes with ESC spelled     *)
(* out, and a frame is the sequence of the strings and bytes the           *)
(* strings.Builder receives, in order.                                     *)
(***************************************************************************)
EXTENDS Integers, Sequences, FiniteSets, TLC

\* ---------------------------------------------------------------- bounds
Width == 2
Height == 2
MaxOps == 2
MaxDepth == 2
MaxFrames == 2
MaxCubeSets == 1
MaxParticles == 4
MaxSceneFrames == 3
ParticleLife == 2
BoltDecay == 1

\* ------------------------------------------------------------- constants
\* term.Home, term.Reset and the newline byte written after every row.
Home == "ESC[H"
Reset == "ESC[0m"
Newline == "\n"
HideCursor == "ESC[?25l"
ShowCursor == "ESC[?25h"
ClearScreen == "ESC[2J"

\* The unpainted sentinel of a cell: glyph ' ', color "", depth MaxFloat64.
Space == " "
NoColor == ""
MaxFloat64 == MaxDepth + 1

\* The zero value of a Go byte: the glyph of a cell that make() allocated
\* and nothing wrote.
Zero == "NUL"

\* The terminal as the process finds it: cursor shown, no colour in force.
TermAtStart == [cursor |-> TRUE, attr |-> NoColor]

\* The escapes that are not colours, and the bytes that are glyphs: one
\* character, or the zero byte. Every other string the scenes print is a
\* colour escape of one of their palettes.
ControlEscapes == {Home, Reset, HideCursor, ShowCursor, ClearScreen}
IsGlyphByte(b) == b = Zero \/ Len(b) = 1

\* What the bytes do to the terminal: the cursor escapes hide and show the
\* cursor, a colour escape sets the colour in force, the reset clears it.
RECURSIVE Screen(_, _)
Screen(st, bytes) ==
  IF bytes = <<>> THEN st
  ELSE LET b == Head(bytes)
           nx == CASE b = HideCursor -> [st EXCEPT !.cursor = FALSE]
                   [] b = ShowCursor -> [st EXCEPT !.cursor = TRUE]
                   [] b = Reset -> [st EXCEPT !.attr = NoColor]
                   [] b \in ControlEscapes \/ IsGlyphByte(b) -> st
                   [] OTHER -> [st EXCEPT !.attr = b]
       IN Screen(nx, Tail(bytes))

\* Glyph bytes, colour escapes and depths the calls are driven with.
Glyphs == {Space, "X", "Y"}
Colors == {"ESC[38;5;45m", "ESC[38;5;81m"}
Depths == (1..MaxDepth) \cup {MaxFloat64}

\* Every value a glyph byte argument is driven with where the zero byte is
\* among them.
GlyphBytes == Glyphs \cup {Zero}

Scenes == {"cybercube", "rain", "tunnel"}

\* cybercube's backdropPalette, and the glyph and colours drawCubes is driven
\* with (the vertex glyph 'O' in the first colour of vertexGlowPalette).
BackdropPalette == <<"ESC[38;5;233m", "ESC[38;5;234m", "ESC[38;5;235m">>
CubeGlyphs == {"O"}
CubeColors == {"ESC[38;5;195m"}

ColorEscapes ==
  Colors \cup CubeColors \cup {BackdropPalette[i] : i \in 1..Len(BackdropPalette)}

\* Coordinates <<x, y>> the calls are driven with: the first two cells of the
\* first row, the second cell of the last row, and one step outside the
\* buffer on each of its four sides.
Coords ==
  {<<0, 0>>, <<1, 0>>, <<1, Height - 1>>,
   <<-1, 0>>, <<Width, Height - 1>>, <<0, -1>>, <<1, Height>>}

VARIABLES
  scene,   \* the scene package whose buffer is in use
  cells,   \* cybercube: gridBuffer.cells, rows of cell{glyph,color,depth}
  grid,    \* rain, tunnel: [][]cell, rows of cell{glyph,color}
  out,     \* the bytes the last step handed to fmt.Print (<<>>: none)
  call,    \* the last buffer call: its name, arguments, and the cell it
           \* targeted as it was before the call
  prev,    \* the name of the call before it
  nops,    \* write calls made since the buffer was last cleared
  pc,      \* Run: where the main goroutine stands ("idle": no loop runs)
  frame,   \* Run: the loop counter
  angles,  \* Run: instances[i].angles, in steps of cfg.RotationSpeed
  wq,      \* the strings Render has yet to hand to fmt.Print
  wbuf,    \* main goroutine: bytes of its fmt.Print not yet on the terminal
  sbuf,    \* signal goroutine: bytes of its fmt.Print not yet on the terminal
  fdmu,    \* who holds the write lock of os.Stdout: "none", "main", "sig"
  tty,     \* bytes the terminal received since the last cursor-home
  notified,\* signal.Notify has registered the channel
  sigch,   \* signals queued in the channel sig (capacity 1)
  spc,     \* where the signal goroutine stands
  alive,   \* the process runs
  nwrites, \* fmt.Print calls the main goroutine began in this tick
  sim,     \* rain, ocean: the simulation state Run holds besides the buffer
  cfg,     \* Run: the Config as requested, then as normalized
  term     \* the terminal: is the cursor shown, the colour attribute in force

bufvars == <<scene, cells, grid, out, call, prev, nops>>
loopvars == <<pc, frame, angles, wq, wbuf, sbuf, fdmu, tty, notified, sigch,
              spc, alive, nwrites>>
vars == <<scene, cells, grid, out, call, prev, nops, pc, frame, angles, wq,
          wbuf, sbuf, fdmu, tty, notified, sigch, spc, alive, nwrites, sim, cfg,
          term>>

\* ------------------------------------------------------------------ cells
Cell(glyph, color, depth) == [glyph |-> glyph, color |-> color, depth |-> depth]
FlatCell(glyph, color) == [glyph |-> glyph, color |-> color]

Unpainted == Cell(Space, NoColor, MaxFloat64)

InBounds(g, x, y) == ~(y < 0 \/ y >= Len(g)) /\ ~(x < 0 \/ x >= Len(g[y + 1]))

At(g, x, y) == g[y + 1][x + 1]

Put(g, x, y, c) == [g EXCEPT ![y + 1][x + 1] = c]

\* ------------------------------------------------------ cybercube buffer
ClearCellsKeepsDepth(g) ==
  [y \in 1..Len(g) |->
     [x \in 1..Len(g[y]) |-> Cell(Space, NoColor, g[y][x].depth)]]

\* gridBuffer.Clear: every cell becomes the unpainted sentinel.
ClearCells(g) == [y \in 1..Len(g) |-> [x \in 1..Len(g[y]) |-> Unpainted]]

\* newGrid: height rows of width cells, then Clear.
NewGridBuffer(width, height) ==
  ClearCells([y \in 1..height |-> [x \in 1..width |-> Cell(Zero, NoColor, 0)]])

GridSetSpills(g, x, y, glyph, color, depth) ==
  IF y < 0 \/ y >= Len(g) THEN g
  ELSE IF x < 0 \/ x >= Len(g[y + 1]) THEN g
  ELSE IF At(g, x, y).glyph # Space /\ depth >= At(g, x, y).depth THEN g
  ELSE [g EXCEPT ![y + 1] = [i \in 1..Len(g[y + 1]) |->
                               IF i >= x + 1 THEN Cell(glyph, color, depth)
                               ELSE g[y + 1][i]]]

GridSetTieOverwrites(g, x, y, glyph, color, depth) ==
  IF y < 0 \/ y >= Len(g) THEN g
  ELSE IF x < 0 \/ x >= Len(g[y + 1]) THEN g
  ELSE IF At(g, x, y).glyph # Space /\ depth > At(g, x, y).depth THEN g
  ELSE Put(g, x, y, Cell(glyph, color, depth))

GridSetClampsX(g, x, y, glyph, color, depth) ==
  IF y < 0 \/ y >= Len(g) THEN g
  ELSE LET xx == IF x < 0 THEN 0 ELSE IF x >= Len(g[y + 1]) THEN Len(g[y + 1]) - 1 ELSE x
       IN IF At(g, xx, y).glyph # Space /\ depth >= At(g, xx, y).depth THEN g
          ELSE Put(g, xx, y, Cell(glyph, color, depth))

GridSetFartherWins(g, x, y, glyph, color, depth) ==
  IF y < 0 \/ y >= Len(g) THEN g
  ELSE IF x < 0 \/ x >= Len(g[y + 1]) THEN g
  ELSE IF At(g, x, y).glyph # Space /\ depth <= At(g, x, y).depth THEN g
  ELSE Put(g, x, y, Cell(glyph, color, depth))

GridSet(g, x, y, glyph, color, depth) ==
  IF y < 0 \/ y >= Len(g) THEN g
  ELSE IF x < 0 \/ x >= Len(g[y + 1]) THEN g
  ELSE IF At(g, x, y).glyph # Space /\ depth >= At(g, x, y).depth THEN g
  ELSE Put(g, x, y, Cell(glyph, color, depth))

GridSetIfEmptyNearest(g, x, y, glyph, color) ==
  IF y < 0 \/ y >= Len(g) THEN g
  ELSE IF x < 0 \/ x >= Len(g[y + 1]) THEN g
  ELSE IF At(g, x, y).glyph = Space
       THEN Put(g, x, y, Cell(glyph, color, 0))
       ELSE g

GridSetIfEmptyAlways(g, x, y, glyph, color) ==
  IF y < 0 \/ y >= Len(g) THEN g
  ELSE IF x < 0 \/ x >= Len(g[y + 1]) THEN g
  ELSE Put(g, x, y, Cell(glyph, color, MaxFloat64))

GridSetIfEmpty(g, x, y, glyph, color) ==
  IF y < 0 \/ y >= Len(g) THEN g
  ELSE IF x < 0 \/ x >= Len(g[y + 1]) THEN g
  ELSE IF At(g, x, y).glyph = Space
       THEN Put(g, x, y, Cell(glyph, color, MaxFloat64))
       ELSE g

\* ------------------------------------------------- rain / tunnel buffers
\* rain.newGrid fills every cell with ' ' and no colour; tunnel.newGrid
\* leaves the zero cells make() returns.
NewGridRain(width, height) ==
  [y \in 1..height |-> [x \in 1..width |-> FlatCell(Space, NoColor)]]

NewGridTunnel(width, height) ==
  [y \in 1..height |-> [x \in 1..width |-> FlatCell(Zero, NoColor)]]

setCell(g, x, y, glyph, color) ==
  IF y < 0 \/ y >= Len(g) THEN g
  ELSE IF x < 0 \/ x >= Len(g[y + 1]) THEN g
  ELSE Put(g, x, y, FlatCell(glyph, color))

setIfEmpty(g, x, y, glyph, color) ==
  IF y < 0 \/ y >= Len(g) THEN g
  ELSE IF x < 0 \/ x >= Len(g[y + 1]) THEN g
  ELSE IF At(g, x, y).glyph = Space
       THEN Put(g, x, y, FlatCell(glyph, color))
       ELSE g

\* ------------------------------------------------------------- rendering
RECURSIVE RowBytesFrom(_, _)
RowBytesFrom(row, last) ==
  IF row = <<>> THEN <<>>
  ELSE LET c == Head(row)
       IN (IF c.color # NoColor /\ c.color # last THEN <<c.color>> ELSE <<>>)
            \o <<c.glyph>> \o RowBytesFrom(Tail(row), c.color)

RowBytesOncePerRun(row) == RowBytesFrom(row, NoColor)

\* The inner loop of Render: for every cell of the row, the colour escape
\* when the cell has a colour, then the glyph byte.
RECURSIVE RowBytes(_)
RowBytes(row) ==
  IF row = <<>> THEN <<>>
  ELSE LET c == Head(row)
       IN (IF c.color # NoColor THEN <<c.color>> ELSE <<>>)
            \o <<c.glyph>> \o RowBytes(Tail(row))

\* tunnel.render: the same, with a zero glyph written as a space.
RECURSIVE RowBytesTunnel(_)
RowBytesTunnel(row) ==
  IF row = <<>> THEN <<>>
  ELSE LET c == Head(row)
           g == IF c.glyph = Zero THEN Space ELSE c.glyph
       IN (IF c.color # NoColor THEN <<c.color>> ELSE <<>>)
            \o <<g>> \o RowBytesTunnel(Tail(row))

RECURSIVE RowsBytesNoReset(_)
RowsBytesNoReset(rows) ==
  IF rows = <<>> THEN <<>>
  ELSE RowBytes(Head(rows)) \o <<Newline>> \o RowsBytesNoReset(Tail(rows))

\* The outer loop of Render: every row, then term.Reset and '\n'.
RECURSIVE RowsBytes(_)
RowsBytes(rows) ==
  IF rows = <<>> THEN <<>>
  ELSE RowBytes(Head(rows)) \o <<Reset, Newline>> \o RowsBytes(Tail(rows))

RECURSIVE RowsBytesTunnel(_)
RowsBytesTunnel(rows) ==
  IF rows = <<>> THEN <<>>
  ELSE RowBytesTunnel(Head(rows)) \o <<Reset, Newline>>
         \o RowsBytesTunnel(Tail(rows))

RenderBytesHomePerRow(g) ==
  IF g = <<>> THEN <<Home>>
  ELSE <<Home>> \o RowsBytes(<<Head(g)>>) \o <<Home>> \o RowsBytes(Tail(g))

\* gridBuffer.Render and rain.render: the string handed to fmt.Print.
RenderBytes(g) == <<Home>> \o RowsBytes(g)

\* tunnel.render returns without writing when the grid has no rows.
RenderBytesTunnel(g) ==
  IF Len(g) = 0 THEN <<>> ELSE <<Home>> \o RowsBytesTunnel(g)

\* ------------------------------------------------------- the call record
NoCell == [glyph |-> "none", color |-> "none", depth |-> 0]

Called(op, x, y, glyph, color, depth, was) ==
  [op |-> op, x |-> x, y |-> y, glyph |-> glyph, color |-> color,
   depth |-> depth, was |-> was]

NoArgs(op) == Called(op, 0, 0, Space, NoColor, 0, NoCell)

Target(g, x, y) == IF InBounds(g, x, y) THEN At(g, x, y) ELSE NoCell

\* No scene state, no Config: the buffer calls are driven directly.
NoSim == <<>>
NoConfig == <<>>

\* ----------------------------------------------------------------- Init
Init ==
  /\ scene \in Scenes
  /\ cells = IF scene = "cybercube" THEN NewGridBuffer(Width, Height) ELSE <<>>
  /\ grid = CASE scene = "rain" -> NewGridRain(Width, Height)
              [] scene = "tunnel" -> NewGridTunnel(Width, Height)
              [] OTHER -> <<>>
  /\ out = <<>>
  /\ call = NoArgs("new")
  /\ prev = "none"
  /\ nops = 0
  /\ pc = "idle" /\ frame = 0 /\ angles = 0
  /\ wq = <<>> /\ wbuf = <<>> /\ sbuf = <<>> /\ fdmu = "none" /\ tty = <<>>
  /\ notified = FALSE /\ sigch = 0 /\ spc = "unborn"
  /\ alive = TRUE /\ nwrites = 0
  /\ sim = NoSim /\ cfg = NoConfig
  /\ term = TermAtStart

\* -------------------------------------------------------------- actions
\* gridBuffer.Clear
Clear ==
  /\ scene = "cybercube"
  /\ cells' = ClearCells(cells)
  /\ call' = Called("Clear", 0, 0, Space, NoColor, 0, At(cells, 0, 0))
  /\ prev' = call.op
  /\ nops' = 0
  /\ out' = <<>>
  /\ UNCHANGED <<term, sim, cfg, scene, grid>>
  /\ UNCHANGED loopvars

\* gridBuffer.Set
Set ==
  /\ scene = "cybercube"
  /\ nops < MaxOps
  /\ \E p \in Coords, glyph \in Glyphs, color \in Colors,
        depth \in Depths :
       /\ cells' = GridSet(cells, p[1], p[2], glyph, color, depth)
       /\ call' = Called("Set", p[1], p[2], glyph, color, depth,
                         Target(cells, p[1], p[2]))
  /\ nops' = nops + 1
  /\ prev' = call.op
  /\ out' = <<>>
  /\ UNCHANGED <<term, sim, cfg, scene, grid>>
  /\ UNCHANGED loopvars

\* gridBuffer.SetIfEmpty
SetIfEmpty ==
  /\ scene = "cybercube"
  /\ nops < MaxOps
  /\ \E p \in Coords, glyph \in Glyphs, color \in Colors :
       /\ cells' = GridSetIfEmpty(cells, p[1], p[2], glyph, color)
       /\ call' = Called("SetIfEmpty", p[1], p[2], glyph, color, MaxFloat64,
                         Target(cells, p[1], p[2]))
  /\ nops' = nops + 1
  /\ prev' = call.op
  /\ out' = <<>>
  /\ UNCHANGED <<term, sim, cfg, scene, grid>>
  /\ UNCHANGED loopvars

RenderClears ==
  /\ scene = "cybercube"
  /\ out' = RenderBytes(cells)
  /\ cells' = ClearCells(cells)
  /\ call' = NoArgs("Render")
  /\ prev' = call.op
  /\ UNCHANGED <<term, sim, cfg, scene, grid, nops>>
  /\ UNCHANGED loopvars

\* gridBuffer.Render
Render ==
  /\ scene = "cybercube"
  /\ out' = RenderBytes(cells)
  /\ call' = NoArgs("Render")
  /\ prev' = call.op
  /\ UNCHANGED <<term, sim, cfg, scene, cells, grid, nops>>
  /\ UNCHANGED loopvars

\* rain.newGrid, called at the top of every frame of rain.Run
RainNewGrid ==
  /\ scene = "rain"
  /\ grid' = NewGridRain(Width, Height)
  /\ call' = NoArgs("newGrid")
  /\ prev' = call.op
  /\ nops' = 0
  /\ out' = <<>>
  /\ UNCHANGED <<term, sim, cfg, scene, cells>>
  /\ UNCHANGED loopvars

\* rain.setCell, tunnel.setCell
SetCell ==
  /\ scene \in {"rain", "tunnel"}
  /\ nops < MaxOps
  /\ \E p \in Coords, glyph \in Glyphs, color \in Colors :
       /\ grid' = setCell(grid, p[1], p[2], glyph, color)
       /\ call' = Called("setCell", p[1], p[2], glyph, color, 0, Target(grid, p[1], p[2]))
  /\ nops' = nops + 1
  /\ prev' = call.op
  /\ out' = <<>>
  /\ UNCHANGED <<term, sim, cfg, scene, cells>>
  /\ UNCHANGED loopvars

\* rain.setIfEmpty
RainSetIfEmpty ==
  /\ scene = "rain"
  /\ nops < MaxOps
  /\ \E p \in Coords, glyph \in Glyphs, color \in Colors :
       /\ grid' = setIfEmpty(grid, p[1], p[2], glyph, color)
       /\ call' = Called("setIfEmpty", p[1], p[2], glyph, color, 0, Target(grid, p[1], p[2]))
  /\ nops' = nops + 1
  /\ prev' = call.op
  /\ out' = <<>>
  /\ UNCHANGED <<term, sim, cfg, scene, cells>>
  /\ UNCHANGED loopvars

\* rain.render
RainRender ==
  /\ scene = "rain"
  /\ out' = RenderBytes(grid)
  /\ call' = NoArgs("render")
  /\ prev' = call.op
  /\ UNCHANGED <<term, sim, cfg, scene, cells, grid, nops>>
  /\ UNCHANGED loopvars

\* tunnel.render
TunnelRender ==
  /\ scene = "tunnel"
  /\ out' = RenderBytesTunnel(grid)
  /\ call' = NoArgs("render")
  /\ prev' = call.op
  /\ UNCHANGED <<term, sim, cfg, scene, cells, grid, nops>>
  /\ UNCHANGED loopvars

Next ==
  \/ Clear
  \/ Set
  \/ SetIfEmpty
  \/ Render
  \/ RainNewGrid
  \/ SetCell
  \/ RainSetIfEmpty
  \/ RainRender
  \/ TunnelRender

Spec == Init /\ [][Next]_vars

\* ------------------------------------------- buffer calls with any glyph byte
\* gridBuffer.Set, the glyph any byte, the zero byte included
SetByte ==
  /\ scene = "cybercube"
  /\ nops < MaxOps
  /\ \E p \in Coords, glyph \in GlyphBytes, color \in Colors,
        depth \in Depths :
       /\ cells' = GridSet(cells, p[1], p[2], glyph, color, depth)
       /\ call' = Called("Set", p[1], p[2], glyph, color, depth,
                         Target(cells, p[1], p[2]))
  /\ nops' = nops + 1
  /\ prev' = call.op
  /\ out' = <<>>
  /\ UNCHANGED <<term, sim, cfg, scene, grid>>
  /\ UNCHANGED loopvars

\* rain.setCell, tunnel.setCell, the glyph any byte, the zero byte included
SetCellByte ==
  /\ scene \in {"rain", "tunnel"}
  /\ nops < MaxOps
  /\ \E p \in Coords, glyph \in GlyphBytes, color \in Colors :
       /\ grid' = setCell(grid, p[1], p[2], glyph, color)
       /\ call' = Called("setCell", p[1], p[2], glyph, color, 0,
                         Target(grid, p[1], p[2]))
  /\ nops' = nops + 1
  /\ prev' = call.op
  /\ out' = <<>>
  /\ UNCHANGED <<term, sim, cfg, scene, cells>>
  /\ UNCHANGED loopvars

NextBytes ==
  \/ Clear
  \/ SetByte
  \/ Render
  \/ RainNewGrid
  \/ SetCellByte
  \/ RainRender
  \/ TunnelRender

SpecBytes == Init /\ [][NextBytes]_vars

\* ------------------------------------------------ cybercube.Run, term.Start
\* drawBackdrop: on every fourth row, every second column, SetIfEmpty of '.'
\* or ':' in a colour of backdropPalette. A SetIfEmpty reads and writes the
\* one cell it is aimed at, so the loop is taken cell by cell.
BackdropColor(y, fr) ==
  BackdropPalette[(((y \div 4) + (fr \div 30)) % Len(BackdropPalette)) + 1]

BackdropGlyph(x, y, fr) ==
  IF ((x \div 2) + y + (fr \div 8)) % 5 = 0 THEN ":" ELSE "."

drawBackdrop(g, fr) ==
  [yy \in 1..Len(g) |->
     [xx \in 1..Len(g[yy]) |->
        LET x == xx - 1
            y == yy - 1
        IN IF y % 4 # 0 \/ x % 2 # 0 THEN g[yy][xx]
           ELSE At(GridSetIfEmpty(g, x, y, BackdropGlyph(x, y, fr),
                                  BackdropColor(y, fr)), x, y)]]

RECURSIVE RowWrites(_)
RowWrites(rows) ==
  IF rows = <<>> THEN <<>>
  ELSE <<RowsBytes(<<Head(rows)>>)>> \o RowWrites(Tail(rows))

RenderWritesPerRow(g) == <<<<Home>>>> \o RowWrites(g)

\* Render: the strings it hands to fmt.Print, in order: one, the whole frame.
RenderWrites(g) == <<RenderBytes(g)>>

\* The terminal keeps the bytes since the last cursor-home.
RECURSIVE Deliver(_, _)
Deliver(t, bytes) ==
  IF bytes = <<>> THEN t
  ELSE Deliver(IF Head(bytes) = Home THEN <<Home>> ELSE Append(t, Head(bytes)),
               Tail(bytes))

LoopInit ==
  /\ scene = "cybercube"
  /\ cells = <<>> /\ grid = <<>> /\ out = <<>>
  /\ call = NoArgs("new") /\ prev = "none" /\ nops = 0
  /\ pc = "hide" /\ frame = 0 /\ angles = 0
  /\ wq = <<>> /\ wbuf = <<>> /\ sbuf = <<>> /\ fdmu = "none" /\ tty = <<>>
  /\ notified = FALSE /\ sigch = 0 /\ spc = "unborn"
  /\ alive = TRUE /\ nwrites = 0
  /\ sim = NoSim /\ cfg = NoConfig
  /\ term = TermAtStart

\* term.Restore: fmt.Print(ShowCursor, Reset)
RestoreBytesNoShow == <<Reset>>
RestoreBytes == <<ShowCursor, Reset>>

\* fmt.Print on os.Stdout is one File.Write call, which holds the file's
\* write lock from its first byte to its last; the terminal may take the
\* bytes in several pieces.
\* term.Start: fmt.Print(HideCursor), fmt.Print(ClearScreen);
\* Render: fmt.Print(sb.String()).
PrintBegin ==
  /\ alive /\ pc \in {"hide", "cls", "print", "restore"} /\ fdmu = "none"
  /\ LET payload == CASE pc = "hide" -> <<HideCursor>>
                      [] pc = "cls" -> <<ClearScreen>>
                      [] pc = "print" -> Head(wq)
                      [] pc = "restore" -> RestoreBytes
     IN /\ wbuf' = payload
        /\ out' = payload
  /\ fdmu' = "main"
  /\ nwrites' = IF pc = "print" THEN nwrites + 1 ELSE nwrites
  /\ UNCHANGED <<term, sim, cfg, scene, cells, grid, call, prev, nops, pc, frame, angles, wq,
                 sbuf, tty, notified, sigch, spc, alive>>

MainDeliver ==
  /\ alive /\ fdmu = "main"
  /\ \E k \in 1..Len(wbuf) :
       /\ tty' = Deliver(tty, SubSeq(wbuf, 1, k))
       /\ term' = Screen(term, SubSeq(wbuf, 1, k))
       /\ wbuf' = SubSeq(wbuf, k + 1, Len(wbuf))
       /\ IF k = Len(wbuf)
          THEN /\ fdmu' = "none"
               /\ pc' = CASE pc = "hide" -> "cls"
                          [] pc = "cls" -> "notify"
                          [] pc = "print" ->
                               IF Len(wq) > 1 THEN "print" ELSE "update"
                          [] pc = "restore" -> "returned"
               /\ wq' = IF pc = "print" THEN Tail(wq) ELSE wq
          ELSE UNCHANGED <<fdmu, pc, wq>>
  /\ UNCHANGED <<sim, cfg, scene, cells, grid, out, call, prev, nops, frame, angles,
                 sbuf, notified, sigch, spc, alive, nwrites>>

\* term.Start: signal.Notify(sig, os.Interrupt, syscall.SIGTERM)
Notify ==
  /\ alive /\ pc = "notify"
  /\ notified' = TRUE
  /\ pc' = "go"
  /\ UNCHANGED <<term, sim, cfg, bufvars, frame, angles, wq, wbuf, sbuf, fdmu, tty, sigch,
                 spc, alive, nwrites>>

\* term.Start: go func() { <-sig; Restore(); os.Exit(1) }()
Go ==
  /\ alive /\ pc = "go"
  /\ spc' = "recv"
  /\ pc' = "newgrid"
  /\ UNCHANGED <<term, sim, cfg, bufvars, frame, angles, wq, wbuf, sbuf, fdmu, tty, notified,
                 sigch, alive, nwrites>>

\* Run: grid := newGrid(cfg.Width, cfg.Height)
NewGrid ==
  /\ alive /\ pc = "newgrid"
  /\ cells' = NewGridBuffer(Width, Height)
  /\ pc' = "clear"
  /\ UNCHANGED <<term, sim, cfg, scene, grid, out, call, prev, nops, frame, angles, wq, wbuf,
                 sbuf, fdmu, tty, notified, sigch, spc, alive, nwrites>>

\* Run: grid.Clear()
LoopClear ==
  /\ alive /\ pc = "clear"
  /\ cells' = ClearCells(cells)
  /\ nops' = 0
  /\ pc' = "backdrop"
  /\ UNCHANGED <<term, sim, cfg, scene, grid, out, call, prev, frame, angles, wq, wbuf, sbuf,
                 fdmu, tty, notified, sigch, spc, alive, nwrites>>

\* Run: drawBackdrop(grid, frame)
LoopBackdrop ==
  /\ alive /\ pc = "backdrop"
  /\ cells' = drawBackdrop(cells, frame)
  /\ pc' = "cubes"
  /\ UNCHANGED <<term, sim, cfg, scene, grid, out, call, prev, nops, frame, angles, wq, wbuf,
                 sbuf, fdmu, tty, notified, sigch, spc, alive, nwrites>>

\* The depths drawCubes hands to Set: distances from the camera (v.z +
\* cameraDistance, a few units) with small offsets, all finite.
CubeDepths == 1..MaxDepth

\* Run: drawCubes(grid, instances, frame), one grid.Set per step; where the
\* projection puts a point, and how deep, is left open.
LoopCubeSet ==
  /\ alive /\ pc = "cubes" /\ nops < MaxCubeSets
  /\ \E p \in Coords, glyph \in CubeGlyphs, color \in CubeColors,
        depth \in CubeDepths :
       cells' = GridSet(cells, p[1], p[2], glyph, color, depth)
  /\ nops' = nops + 1
  /\ UNCHANGED <<term, sim, cfg, scene, grid, out, call, prev, pc, frame, angles, wq, wbuf,
                 sbuf, fdmu, tty, notified, sigch, spc, alive, nwrites>>

LoopCubesDone ==
  /\ alive /\ pc = "cubes"
  /\ pc' = "render"
  /\ UNCHANGED <<term, sim, cfg, bufvars, frame, angles, wq, wbuf, sbuf, fdmu, tty, notified,
                 sigch, spc, alive, nwrites>>

\* Run: grid.Render(), up to its fmt.Print
LoopRender ==
  /\ alive /\ pc = "render"
  /\ wq' = RenderWrites(cells)
  /\ pc' = "print"
  /\ UNCHANGED <<term, sim, cfg, bufvars, frame, angles, wbuf, sbuf, fdmu, tty, notified,
                 sigch, spc, alive, nwrites>>

\* Run: updateInstanceRotations(instances)
LoopUpdate ==
  /\ alive /\ pc = "update"
  /\ angles' = angles + 1
  /\ pc' = "wait"
  /\ UNCHANGED <<term, sim, cfg, bufvars, frame, wq, wbuf, sbuf, fdmu, tty, notified, sigch,
                 spc, alive, nwrites>>

LoopTickReturns ==
  /\ alive /\ pc = "wait"
  /\ alive' = FALSE
  /\ UNCHANGED <<term, sim, cfg, bufvars, pc, frame, angles, wq, wbuf, sbuf, fdmu, tty,
                 notified, sigch, spc, nwrites>>

\* Run: <-ticker.C, then frame++
LoopTick ==
  /\ alive /\ pc = "wait" /\ frame + 1 < MaxFrames
  /\ frame' = frame + 1
  /\ nwrites' = 0
  /\ pc' = "clear"
  /\ UNCHANGED <<term, sim, cfg, bufvars, angles, wq, wbuf, sbuf, fdmu, tty, notified, sigch,
                 spc, alive>>

\* SIGINT or SIGTERM arrives: queued in sig when the channel is registered
\* and has room, dropped when it is full; before signal.Notify the default
\* disposition ends the process at once.
Signal ==
  /\ alive /\ pc # "idle"
  /\ IF notified
     THEN /\ sigch = 0
          /\ sigch' = 1
          /\ UNCHANGED alive
     ELSE /\ alive' = FALSE
          /\ UNCHANGED sigch
  /\ UNCHANGED <<term, sim, cfg, bufvars, pc, frame, angles, wq, wbuf, sbuf, fdmu, tty,
                 notified, spc, nwrites>>

\* signal goroutine: <-sig
SigRecv ==
  /\ alive /\ spc = "recv" /\ sigch = 1
  /\ sigch' = 0
  /\ spc' = "restore"
  /\ UNCHANGED <<term, sim, cfg, bufvars, pc, frame, angles, wq, wbuf, sbuf, fdmu, tty,
                 notified, alive, nwrites>>

SigPrintBeginClears ==
  /\ alive /\ spc = "restore" /\ fdmu = "none"
  /\ fdmu' = "sig"
  /\ sbuf' = RestoreBytes
  /\ cells' = ClearCells(cells)
  /\ UNCHANGED <<term, sim, cfg, scene, grid, out, call, prev, nops, pc, frame, angles, wq,
                 wbuf, tty, notified, sigch, spc, alive, nwrites>>

\* signal goroutine: Restore(), up to its fmt.Print
SigPrintBegin ==
  /\ alive /\ spc = "restore" /\ fdmu = "none"
  /\ fdmu' = "sig"
  /\ sbuf' = RestoreBytes
  /\ UNCHANGED <<term, sim, cfg, bufvars, pc, frame, angles, wq, wbuf, tty, notified, sigch,
                 spc, alive, nwrites>>

SigDeliver ==
  /\ alive /\ fdmu = "sig"
  /\ \E k \in 1..Len(sbuf) :
       /\ tty' = Deliver(tty, SubSeq(sbuf, 1, k))
       /\ term' = Screen(term, SubSeq(sbuf, 1, k))
       /\ sbuf' = SubSeq(sbuf, k + 1, Len(sbuf))
       /\ IF k = Len(sbuf)
          THEN fdmu' = "none" /\ spc' = "exit"
          ELSE UNCHANGED <<fdmu, spc>>
  /\ UNCHANGED <<sim, cfg, bufvars, pc, frame, angles, wq, wbuf, notified, sigch, alive,
                 nwrites>>

\* signal goroutine: os.Exit(1)
SigExit ==
  /\ alive /\ spc = "exit"
  /\ alive' = FALSE
  /\ UNCHANGED <<term, sim, cfg, bufvars, pc, frame, angles, wq, wbuf, sbuf, fdmu, tty,
                 notified, sigch, spc, nwrites>>

LoopNext ==
  \/ PrintBegin
  \/ MainDeliver
  \/ Notify
  \/ Go
  \/ NewGrid
  \/ LoopClear
  \/ LoopBackdrop
  \/ LoopCubeSet
  \/ LoopCubesDone
  \/ LoopRender
  \/ LoopUpdate
  \/ LoopTick
  \/ Signal
  \/ SigRecv
  \/ SigPrintBegin
  \/ SigDeliver
  \/ SigExit

SpecLoop == LoopInit /\ [][LoopNext]_vars

\* ------------------------------------------------- Run: the endless loop
\* The loop with its counters taken modulo MaxFrames, so that it can be
\* followed for ever: frame is a Go int that wraps, the angles are radians
\* and a full turn brings them back.
\* Run: updateInstanceRotations(instances)
LoopUpdateWrap ==
  /\ alive /\ pc = "update"
  /\ angles' = (angles + 1) % MaxFrames
  /\ pc' = "wait"
  /\ UNCHANGED <<term, sim, cfg, bufvars, frame, wq, wbuf, sbuf, fdmu, tty, notified, sigch,
                 spc, alive, nwrites>>

LoopTickWrapOnce ==
  /\ alive /\ pc = "wait" /\ frame = 0
  /\ frame' = (frame + 1) % MaxFrames
  /\ nwrites' = 0
  /\ pc' = "clear"
  /\ UNCHANGED <<term, sim, cfg, bufvars, angles, wq, wbuf, sbuf, fdmu, tty, notified, sigch,
                 spc, alive>>

\* Run: <-ticker.C, then frame++
LoopTickWrap ==
  /\ alive /\ pc = "wait"
  /\ frame' = (frame + 1) % MaxFrames
  /\ nwrites' = 0
  /\ pc' = "clear"
  /\ UNCHANGED <<term, sim, cfg, bufvars, angles, wq, wbuf, sbuf, fdmu, tty, notified, sigch,
                 spc, alive>>

\* The steps the main goroutine takes by itself, the ticker's aside.
MainCompute ==
  \/ PrintBegin
  \/ MainDeliver
  \/ Notify
  \/ Go
  \/ NewGrid
  \/ LoopClear
  \/ LoopBackdrop
  \/ LoopCubeSet
  \/ LoopCubesDone
  \/ LoopRender
  \/ LoopUpdateWrap

FairNext ==
  \/ MainCompute
  \/ LoopTickWrap
  \/ Signal
  \/ SigRecv
  \/ SigPrintBegin
  \/ SigDeliver
  \/ SigExit

\* The ticker fires again and again (time.NewTicker), and a goroutine that
\* can run does: a step of the main goroutine that stays possible is taken.
SpecLoopFair ==
  /\ LoopInit
  /\ [][FairNext]_vars
  /\ WF_vars(LoopTickWrap)
  /\ WF_vars(MainCompute)

\* ------------------------------------------- main, Run: the configuration
\* cybercube's floors and fallback delay (Config.normalize) and the number
\* of cubes of MultiCubeInstances. Durations are in milliseconds.
MinWidthCube == 48
MinHeightCube == 24
FallbackDelay == 60
MultiCubeCount == 3

\* The widths, heights and delays of the Config main starts from or a caller
\* of Run builds, below, at and above the floors, and the values the flags
\* -width, -height and -delay are given (0: the flag is absent).
ReqWidths == {-1, 0, 10, MinWidthCube, MinWidthCube + 1}
ReqHeights == {-1, 10, MinHeightCube + 1}
ReqDelays == {-1, 0, 1}
Flags ==
  {[width |-> 0, height |-> 0, delay |-> 0],
   [width |-> -1, height |-> -1, delay |-> -1],
   [width |-> 10, height |-> 10, delay |-> 1],
   [width |-> MinWidthCube + 1, height |-> 0, delay |-> 0]}

BaseConfigs ==
  [Width : ReqWidths, Height : ReqHeights, FrameDelay : {1}, Instances : {1}]
    \cup [Width : {10}, Height : {10}, FrameDelay : ReqDelays, Instances : {0}]

\* main.applyOverrides: a flag value replaces the field when it is > 0.
applyOverrides(c, f) ==
  [c EXCEPT !.Width = IF f.width > 0 THEN f.width ELSE @,
            !.Height = IF f.height > 0 THEN f.height ELSE @,
            !.FrameDelay = IF f.delay > 0 THEN f.delay ELSE @]

normalizeNoFloor(c) ==
  [c EXCEPT !.Width = IF @ <= 0 THEN MinWidthCube ELSE @,
            !.Height = IF @ <= 0 THEN MinHeightCube ELSE @,
            !.FrameDelay = IF @ <= 0 THEN FallbackDelay ELSE @,
            !.Instances = IF @ = 0 THEN MultiCubeCount ELSE @]

normalizeKeepsZeroDelay(c) ==
  [c EXCEPT !.Width = IF @ < MinWidthCube THEN MinWidthCube ELSE @,
            !.Height = IF @ < MinHeightCube THEN MinHeightCube ELSE @,
            !.FrameDelay = IF @ < 0 THEN FallbackDelay ELSE @,
            !.Instances = IF @ = 0 THEN MultiCubeCount ELSE @]

\* Config.normalize
normalize(c) ==
  [c EXCEPT !.Width = IF @ < MinWidthCube THEN MinWidthCube ELSE @,
            !.Height = IF @ < MinHeightCube THEN MinHeightCube ELSE @,
            !.FrameDelay = IF @ <= 0 THEN FallbackDelay ELSE @,
            !.Instances = IF @ = 0 THEN MultiCubeCount ELSE @]

\* cfg holds the Config, the flags, and the Config as Run was handed it.
ConfigInit ==
  /\ scene = "cybercube"
  /\ cells = <<>> /\ grid = <<>> /\ out = <<>>
  /\ call = NoArgs("new") /\ prev = "none" /\ nops = 0
  /\ pc = "flags" /\ frame = 0 /\ angles = 0
  /\ wq = <<>> /\ wbuf = <<>> /\ sbuf = <<>> /\ fdmu = "none" /\ tty = <<>>
  /\ notified = FALSE /\ sigch = 0 /\ spc = "unborn"
  /\ alive = TRUE /\ nwrites = 0
  /\ sim = NoSim
  /\ \E c \in BaseConfigs, f \in Flags :
       cfg = [config |-> c, flag |-> f, given |-> c]
  /\ term = TermAtStart

ConfigCall(from, to, c) ==
  /\ alive /\ pc = from
  /\ pc' = to
  /\ cfg' = c
  /\ UNCHANGED <<term, sim, bufvars, frame, angles, wq, wbuf, sbuf, fdmu, tty,
                 notified, sigch, spc, alive, nwrites>>

\* main: applyOverrides(&cfg.Width, &cfg.Height, &cfg.FrameDelay, ...), then
\* cybercube.Run(cfg)
ApplyOverrides ==
  LET c == applyOverrides(cfg.config, cfg.flag)
  IN ConfigCall("flags", "normalize", [cfg EXCEPT !.config = c, !.given = c])

\* Run: cfg = cfg.normalize()
Normalize ==
  ConfigCall("normalize", "termstart",
             [cfg EXCEPT !.config = normalize(cfg.config)])

\* Run: cleanup := term.Start(true), in one step
RunTermStart ==
  /\ alive /\ pc = "termstart"
  /\ out' = <<HideCursor, ClearScreen>>
  /\ tty' = Deliver(tty, <<HideCursor, ClearScreen>>)
  /\ term' = Screen(term, <<HideCursor, ClearScreen>>)
  /\ notified' = TRUE
  /\ spc' = "recv"
  /\ pc' = "ticker"
  /\ UNCHANGED <<sim, cfg, scene, cells, grid, call, prev, nops, frame, angles, wq,
                 wbuf, sbuf, fdmu, sigch, alive, nwrites>>

\* Run: ticker := time.NewTicker(cfg.FrameDelay); NewTicker panics when the
\* duration is not positive.
RunNewTicker ==
  /\ alive /\ pc = "ticker"
  /\ IF cfg.config.FrameDelay <= 0
     THEN pc' = "panic" /\ UNCHANGED sim
     ELSE pc' = "grid" /\ sim' = [ticker |-> cfg.config.FrameDelay]
  /\ UNCHANGED <<term, cfg, bufvars, frame, angles, wq, wbuf, sbuf, fdmu, tty,
                 notified, sigch, spc, alive, nwrites>>

\* Run: grid := newGrid(cfg.Width, cfg.Height)
RunNewGrid ==
  /\ alive /\ pc = "grid"
  /\ cells' = NewGridBuffer(cfg.config.Width, cfg.config.Height)
  /\ pc' = "clear"
  /\ UNCHANGED <<term, sim, cfg, scene, grid, out, call, prev, nops, frame, angles, wq,
                 wbuf, sbuf, fdmu, tty, notified, sigch, spc, alive, nwrites>>

\* From the flags to the string the first Render hands to fmt.Print.
ConfigNext ==
  \/ ApplyOverrides
  \/ Normalize
  \/ RunTermStart
  \/ RunNewTicker
  \/ RunNewGrid
  \/ LoopClear
  \/ LoopBackdrop
  \/ LoopCubeSet
  \/ LoopCubesDone
  \/ LoopRender

SpecConfig == ConfigInit /\ [][ConfigNext]_vars

\* ------------------------------------------- term.Start: the cleanup
\* Run: defer cleanup(). The loop has no return; the deferred call runs when
\* a run-time panic in the loop body unwinds Run.
RunUnwinds ==
  /\ alive /\ pc \in {"clear", "backdrop", "cubes", "render", "update", "wait"}
  /\ pc' = "stop"
  /\ UNCHANGED <<term, sim, cfg, bufvars, frame, angles, wq, wbuf, sbuf, fdmu, tty,
                 notified, sigch, spc, alive, nwrites>>

\* cleanup: signal.Stop(sig); Restore() follows, printed by PrintBegin and
\* MainDeliver. A signal already queued stays in the channel.
CleanupStop ==
  /\ alive /\ pc = "stop"
  /\ notified' = FALSE
  /\ pc' = "restore"
  /\ UNCHANGED <<term, sim, cfg, bufvars, frame, angles, wq, wbuf, sbuf, fdmu, tty,
                 sigch, spc, alive, nwrites>>

\* The deferred calls are done: the process ends.
ProcessEnds ==
  /\ alive /\ pc = "returned"
  /\ alive' = FALSE
  /\ UNCHANGED <<term, sim, cfg, bufvars, pc, frame, angles, wq, wbuf, sbuf, fdmu, tty,
                 notified, sigch, spc, nwrites>>

TermNext ==
  \/ LoopNext
  \/ RunUnwinds
  \/ CleanupStop
  \/ ProcessEnds

SpecTerm == LoopInit /\ [][TermNext]_vars

\* ------------------------------------------------------------- rain.Run
\* The palettes of rain.go.
GlowPalette == <<"ESC[38;5;195m", "ESC[38;5;229m">>
MistPalette == <<"ESC[38;5;236m", "ESC[38;5;237m">>
HorizonPalette == <<"ESC[38;5;24m", "ESC[38;5;25m", "ESC[38;5;31m">>
ReflectionPalette == <<"ESC[38;5;30m", "ESC[38;5;36m", "ESC[38;5;44m">>
StreamPalette == <<"ESC[38;5;159m", "ESC[38;5;81m", "ESC[38;5;42m", "ESC[38;5;35m">>
Charset == <<"|", "/", "\\", ":">>
DrizzleColor == "ESC[38;5;240m"

Min(a, b) == IF a < b THEN a ELSE b
Max(a, b) == IF a > b THEN a ELSE b

\* Every cell (x, y) for which hit(x, y) holds gets setIfEmpty(x, y, ...).
SetIfEmptyWhere(g, hit(_, _), glyph(_, _), color(_, _)) ==
  [yy \in 1..Len(g) |->
     [xx \in 1..Len(g[yy]) |->
        IF hit(xx - 1, yy - 1) /\ g[yy][xx].glyph = Space
        THEN FlatCell(glyph(xx - 1, yy - 1), color(xx - 1, yy - 1))
        ELSE g[yy][xx]]]

\* drawBackground: rows y < height/3, the columns x + y%3 for x = 0, 4, 8, ...
rainDrawBackground(g, fr) ==
  LET hit(x, y) == y < Len(g) \div 3 /\ x >= (y % 3) /\ (x - (y % 3)) % 4 = 0
                   /\ x - (y % 3) < Len(g[1])
      glyph(x, y) == "."
      color(x, y) ==
        HorizonPalette[((y + (fr \div 12)) % Len(HorizonPalette)) + 1]
  IN SetIfEmptyWhere(g, hit, glyph, color)

\* drawMist: rows with (y + frame/3) % 3 = 0, columns (y+frame)%6, +6, ...
drawMist(g, fr) ==
  LET hit(x, y) == (y + (fr \div 3)) % 3 = 0 /\ x >= ((y + fr) % 6)
                   /\ (x - ((y + fr) % 6)) % 6 = 0
      glyph(x, y) == "."
      color(x, y) == MistPalette[(((y \div 2) + (fr \div 10)) % Len(MistPalette)) + 1]
  IN SetIfEmptyWhere(g, hit, glyph, color)

\* drawDrizzle: for x = 0, 5, ... and y = height/3, +7, ... with
\* (x+y+frame) % 9 = 0, the cell (x + frame%3, y).
drawDrizzle(g, fr) ==
  LET src(x) == x - (fr % 3)
      hit(x, y) == /\ src(x) >= 0 /\ src(x) % 5 = 0 /\ src(x) < Len(g[1])
                   /\ y >= (Len(g) \div 3) /\ (y - (Len(g) \div 3)) % 7 = 0
                   /\ (src(x) + y + fr) % 9 = 0
      glyph(x, y) == <<"`", ".", "'">>[(((src(x) \div 3) + y + fr) % 3) + 1]
      color(x, y) == DrizzleColor
  IN SetIfEmptyWhere(g, hit, glyph, color)

\* drawReflections: on row height-4, and the row below, the columns with
\* (x+frame) % 5 = 0; nothing when height < 4.
drawReflections(g, fr) ==
  LET base == Len(g) - 4
      hit(x, y) == base >= 0 /\ (x + fr) % 5 = 0
                   /\ (y = base \/ (y = base + 1 /\ base + 1 < Len(g)))
      glyph(x, y) == IF y = base THEN "_" ELSE "."
      color(x, y) ==
        ReflectionPalette[(((x \div 3) + (fr \div 7)) % Len(ReflectionPalette)) + 1]
  IN SetIfEmptyWhere(g, hit, glyph, color)

\* drawStreams, the buffer: one stream of thickness 1 and no sway, its cells
\* y = head - i for i < length, the head in a colour of glowPalette.
RECURSIVE StreamCells(_, _, _, _)
StreamCells(g, s, fr, i) ==
  IF i >= s.length THEN g
  ELSE LET y == s.head - i
           color == IF i = 0
                    THEN GlowPalette[((fr + y) % Len(GlowPalette)) + 1]
                    ELSE StreamPalette[Min(i \div 2, Len(StreamPalette) - 1) + 1]
           glyph == Charset[((fr + y + i) % Len(Charset)) + 1]
       IN IF y < 0 \/ y >= Len(g) THEN StreamCells(g, s, fr, i + 1)
          ELSE StreamCells(setCell(g, s.baseX, y, glyph, color), s, fr, i + 1)

\* emitSplash: count splashes appended at the stream's column, row height-2.
emitSplash(splashes, x, height, count) ==
  splashes \o [i \in 1..count |-> [x |-> x, y |-> height - 2, life |-> ParticleLife]]

\* drawStreams, the splash list: the head (i = 0) on one of the two last
\* rows emits splashes.
StreamEmits(g, s) == s.head >= 0 /\ s.head < Len(g) /\ s.head >= Len(g) - 2

RECURSIVE drawSplashes(_, _)
drawSplashes(g, splashes) ==
  IF splashes = <<>> THEN g
  ELSE LET sp == Head(splashes)
       IN drawSplashes(
            IF sp.y < 0 \/ sp.y >= Len(g) \/ sp.x < 0 \/ sp.x >= Len(g[1])
            THEN g ELSE setCell(g, sp.x, sp.y, "'", GlowPalette[1]),
            Tail(splashes))

\* drawLightning: '|' on the bolt's points, here one per row of its column
\* over the upper half of the grid.
RECURSIVE drawLightning(_, _, _)
drawLightning(g, x, i) ==
  IF i >= (Len(g) \div 2) THEN g
  ELSE drawLightning(
         setCell(g, x, i, "|", GlowPalette[(i % Len(GlowPalette)) + 1]), x, i + 1)

\* updateSplashes: every splash rises one row and ages; those that left the
\* grid sideways, reached the last row or ran out of life are dropped.
RECURSIVE updateSplashes(_, _, _)
updateSplashes(splashes, width, height) ==
  IF splashes = <<>> THEN <<>>
  ELSE LET sp == Head(splashes)
           moved == [x |-> sp.x, y |-> sp.y - 1, life |-> sp.life - 1]
           rest == updateSplashes(Tail(splashes), width, height)
       IN IF moved.x < 0 \/ moved.x >= width \/ moved.y >= height - 1
             \/ moved.life <= 0
          THEN rest ELSE <<moved>> \o rest

\* One call of the loop body of a Run without a signal handler: from the
\* call at `from` to the one at `to`, with the buffer and the scene state it
\* leaves.
SceneCall(from, to, g, sm) ==
  /\ alive /\ pc = from
  /\ pc' = to
  /\ grid' = g
  /\ sim' = sm
  /\ UNCHANGED <<term, cfg, scene, cells, out, call, prev, nops, frame, angles, wq,
                 wbuf, sbuf, fdmu, tty, notified, sigch, spc, alive, nwrites>>

\* resetStream: a column, and the head on a row of the grid (visible) or up
\* to height-1 rows above it; the length is clampInt(6 + .., 6, height).
ResetStreams(width, height, visible) ==
  {[head |-> h, baseX |-> x, length |-> height] :
     h \in (IF visible THEN 0..(height - 1) ELSE (1 - height)..0),
     x \in 0..(width - 1)}

\* rain.Run up to the loop: fmt.Print(ansiHide, ansiClear), the deferred
\* fmt.Print(ansiShow, ansiReset) registered, makeStreams (one stream), no
\* splash, no bolt.
RainStart ==
  /\ alive /\ scene = "rain" /\ pc = "start"
  /\ out' = <<HideCursor, ClearScreen>>
  /\ tty' = Deliver(tty, <<HideCursor, ClearScreen>>)
  /\ term' = Screen(term, <<HideCursor, ClearScreen>>)
  /\ \E st \in ResetStreams(Width, Height, TRUE) :
       sim' = [stream |-> st, splashes |-> <<>>, boltX |-> 0, decay |-> 0]
  /\ pc' = "newGrid"
  /\ UNCHANGED <<cfg, scene, cells, grid, call, prev, nops, frame, angles, wq,
                 wbuf, sbuf, fdmu, notified, sigch, spc, alive, nwrites>>

RainLoopNewGrid ==
  scene = "rain" /\ SceneCall("newGrid", "drawBackground",
                              NewGridRain(Width, Height), sim)

RainDrawBackground ==
  scene = "rain" /\ SceneCall("drawBackground", "drawMist",
                              rainDrawBackground(grid, frame), sim)

RainDrawMist ==
  scene = "rain" /\ SceneCall("drawMist", "drawDrizzle",
                              drawMist(grid, frame), sim)

RainDrawDrizzle ==
  scene = "rain" /\ SceneCall("drawDrizzle", "drawStreams",
                              drawDrizzle(grid, frame), sim)

\* drawStreams(grid, streams, frame, &splashes)
RainDrawStreams ==
  /\ scene = "rain" /\ pc = "drawStreams"
  /\ IF StreamEmits(grid, sim.stream)
     THEN \E count \in 2..4 :
            /\ Len(sim.splashes) + count <= MaxParticles
            /\ SceneCall("drawStreams", "drawSplashes",
                         StreamCells(grid, sim.stream, frame, 0),
                         [sim EXCEPT !.splashes =
                            emitSplash(@, sim.stream.baseX, Len(grid), count)])
     ELSE SceneCall("drawStreams", "drawSplashes",
                    StreamCells(grid, sim.stream, frame, 0), sim)

RainDrawSplashes ==
  scene = "rain" /\ SceneCall("drawSplashes", "drawReflections",
                              drawSplashes(grid, sim.splashes), sim)

RainDrawReflections ==
  scene = "rain" /\ SceneCall("drawReflections", "lightning",
                              drawReflections(grid, frame), sim)

\* if bolt.decay > 0 { drawLightning(grid, bolt); bolt.decay-- }
\* else if rand.Intn(90) == 0 { bolt = newLightning(...) }
RainLightning ==
  /\ scene = "rain" /\ pc = "lightning"
  /\ IF sim.decay > 0
     THEN SceneCall("lightning", "render", drawLightning(grid, sim.boltX, 0),
                    [sim EXCEPT !.decay = @ - 1])
     ELSE \/ SceneCall("lightning", "render", grid, sim)
          \/ \E x \in 0..(Width - 1) :
               SceneCall("lightning", "render", grid,
                         [sim EXCEPT !.boltX = x, !.decay = BoltDecay])

\* render(grid): one fmt.Print of the whole frame
SceneRender ==
  /\ alive /\ scene \in {"rain", "ocean"} /\ pc = "render"
  /\ out' = RenderBytes(grid)
  /\ tty' = Deliver(tty, RenderBytes(grid))
  /\ term' = Screen(term, RenderBytes(grid))
  /\ nwrites' = nwrites + 1
  /\ pc' = IF scene = "rain" THEN "updateSplashes" ELSE "wait"
  /\ UNCHANGED <<sim, cfg, scene, cells, grid, call, prev, nops, frame, angles,
                 wq, wbuf, sbuf, fdmu, notified, sigch, spc, alive>>

RainUpdateSplashes ==
  scene = "rain" /\ SceneCall("updateSplashes", "updateStreams", grid,
                              [sim EXCEPT !.splashes =
                                 updateSplashes(@, Width, Height)])

\* updateStreams: the head moves on (here one row a frame); a stream whose
\* tail left the grid is reset above it.
RainUpdateStreams ==
  /\ scene = "rain" /\ pc = "updateStreams"
  /\ LET moved == [sim.stream EXCEPT !.head = @ + 1]
     IN IF moved.head - moved.length > Height
        THEN \E st \in ResetStreams(Width, Height, FALSE) :
               SceneCall("updateStreams", "wait", grid,
                         [sim EXCEPT !.stream = st])
        ELSE SceneCall("updateStreams", "wait", grid,
                       [sim EXCEPT !.stream = moved])

\* <-ticker.C, then frame++
SceneTick ==
  /\ alive /\ scene \in {"rain", "ocean"} /\ pc = "wait"
  /\ frame + 1 < MaxSceneFrames
  /\ frame' = frame + 1
  /\ nwrites' = 0
  /\ pc' = IF scene = "rain" THEN "newGrid" ELSE "clearGrid"
  /\ UNCHANGED <<term, sim, cfg, scene, cells, grid, out, call, prev, nops, angles,
                 wq, wbuf, sbuf, fdmu, tty, notified, sigch, spc, alive>>

\* ------------------------------------------------------------ ocean.Run
\* The palettes of ocean.
SkyPalette ==
  <<"ESC[38;5;18m", "ESC[38;5;19m", "ESC[38;5;20m", "ESC[38;5;26m",
    "ESC[38;5;27m", "ESC[38;5;33m">>
OceanHorizonPalette ==
  <<"ESC[38;5;54m", "ESC[38;5;55m", "ESC[38;5;90m", "ESC[38;5;129m">>
WavePalette ==
  <<"ESC[38;5;30m", "ESC[38;5;31m", "ESC[38;5;37m", "ESC[38;5;44m",
    "ESC[38;5;51m">>
FoamPalette == <<"ESC[38;5;189m", "ESC[38;5;195m", "ESC[38;5;231m">>
PlanktonPalette == <<"ESC[38;5;45m", "ESC[38;5;81m", "ESC[38;5;117m">>

\* Two of the five glyphs waveGlyph returns.
WaveGlyphs == {"-", "~"}

\* ocean.newGrid: the zero cells make() returns.
NewGridOcean(width, height) ==
  [y \in 1..height |-> [x \in 1..width |-> FlatCell(Zero, NoColor)]]

clearGrid(g) ==
  [y \in 1..Len(g) |-> [x \in 1..Len(g[y]) |-> FlatCell(Space, NoColor)]]

\* drawClouds: width/6 clouds, two cells each, on row limit/2 + d, where d
\* stands for int(sin(..) * 3).
RECURSIVE drawClouds(_, _, _, _)
drawClouds(g, fr, d, i) ==
  LET width == Len(g[1])
      limit == Len(g) \div 3
      x == ((i * 9) + (fr \div 2)) % width
      y == (limit \div 2) + d
      color == SkyPalette[((i + (fr \div 12)) % Len(SkyPalette)) + 1]
  IN IF i >= (width \div 6) THEN g
     ELSE IF y < 1 \/ y >= limit THEN drawClouds(g, fr, d, i + 1)
     ELSE drawClouds(
            setIfEmpty(setIfEmpty(g, x, y, "~", color), (x + 1) % width, y,
                       "~", color),
            fr, d, i + 1)

\* drawSky: every cell of the rows y < height/3 becomes a space in a colour
\* of skyPalette, then drawClouds.
drawSky(g, fr, d) ==
  drawClouds(
    [yy \in 1..Len(g) |->
       [xx \in 1..Len(g[yy]) |->
          IF yy - 1 < (Len(g) \div 3)
          THEN FlatCell(Space,
                 SkyPalette[((((yy - 1) \div 2) + (fr \div 18)) % Len(SkyPalette)) + 1])
          ELSE g[yy][xx]]],
    fr, d, 0)

\* drawHorizonGlow: setIfEmpty of a space in a colour of horizonPalette on
\* the three rows from height/3 on.
drawHorizonGlow(g, fr) ==
  LET line == Len(g) \div 3
      hit(x, y) == y >= line /\ y < line + 3
      glyph(x, y) == Space
      color(x, y) ==
        OceanHorizonPalette[((y + (fr \div 10)) % Len(OceanHorizonPalette)) + 1]
  IN SetIfEmptyWhere(g, hit, glyph, color)

\* drawWaveLayers: every cell of the rows from height/3 on gets the glyph
\* waveGlyph chooses for it, w[y][x], in the colour of its row.
drawWaveLayers(g, fr, w) ==
  LET base == Len(g) \div 3
      band(y) == ((y - base) * Len(WavePalette)) \div (Len(g) - base)
  IN [yy \in 1..Len(g) |->
        [xx \in 1..Len(g[yy]) |->
           IF yy - 1 >= base
           THEN FlatCell(w[yy][xx],
                  WavePalette[((band(yy - 1) + (fr \div 15)) % Len(WavePalette)) + 1])
           ELSE g[yy][xx]]]

\* drawFoam: '*' by setIfEmpty on rows height-5 and height-6, not above
\* height/3, in the columns with (x+frame) % 7 = 0.
drawFoam(g, fr) ==
  LET base == Len(g) - 5
      hit(x, y) == /\ (x + fr) % 7 = 0
                   /\ (y = base \/ y = base - 1) /\ y >= (Len(g) \div 3)
      glyph(x, y) == "*"
      color(x, y) == FoamPalette[(((x \div 4) + (fr \div 10)) % Len(FoamPalette)) + 1]
  IN SetIfEmptyWhere(g, hit, glyph, color)

\* drawBubbles ('o') and drawPlankton ('.'): setCell at every particle that
\* is on the grid.
RECURSIVE drawParticles(_, _, _, _)
drawParticles(g, items, glyph, color) ==
  IF items = <<>> THEN g
  ELSE LET b == Head(items)
       IN drawParticles(
            IF b.y < 0 \/ b.y >= Len(g) \/ b.x < 0 \/ b.x >= Len(g[1])
            THEN g ELSE setCell(g, b.x, b.y, glyph, color),
            Tail(items), glyph, color)

\* The loop of updateBubbles and updatePlankton: every particle moves by vy
\* and ages; those above height/3 or out of life are dropped.
RECURSIVE moveParticles(_, _, _)
moveParticles(items, vy, height) ==
  IF items = <<>> THEN <<>>
  ELSE LET b == Head(items)
           moved == [x |-> b.x, y |-> b.y + vy, life |-> b.life - 1]
           rest == moveParticles(Tail(items), vy, height)
       IN IF moved.y < (height \div 3) \/ moved.life <= 0
          THEN rest ELSE <<moved>> \o rest

\* updateBubbles: with rand.Intn(3) = 0 a bubble is appended on the last
\* row; then all rise.
updateBubbles(bubbles, spawn, x, height) ==
  moveParticles(
    IF spawn
    THEN Append(bubbles, [x |-> x, y |-> height - 1, life |-> ParticleLife])
    ELSE bubbles,
    -1, height)

\* updatePlankton: with rand.Intn(4) = 0 a plankton is appended on row
\* height/2 + rand.Intn(height/2); plankton drifts by less than a row a frame.
updatePlankton(plankton, spawn, x, y, height) ==
  moveParticles(
    IF spawn
    THEN Append(plankton, [x |-> x, y |-> y, life |-> ParticleLife])
    ELSE plankton,
    0, height)

\* ocean.Run up to the loop: newGrid, no bubbles, no plankton,
\* fmt.Print(ansiHide, ansiClear), the deferred fmt.Print(ansiShow, ansiReset)
\* registered.
OceanStart ==
  /\ alive /\ scene = "ocean" /\ pc = "start"
  /\ grid' = NewGridOcean(Width, Height)
  /\ sim' = [bubbles |-> <<>>, plankton |-> <<>>]
  /\ out' = <<HideCursor, ClearScreen>>
  /\ tty' = Deliver(tty, <<HideCursor, ClearScreen>>)
  /\ term' = Screen(term, <<HideCursor, ClearScreen>>)
  /\ pc' = "clearGrid"
  /\ UNCHANGED <<cfg, scene, cells, call, prev, nops, frame, angles, wq, wbuf,
                 sbuf, fdmu, notified, sigch, spc, alive, nwrites>>

OceanClearGrid ==
  scene = "ocean" /\ SceneCall("clearGrid", "drawSky", clearGrid(grid), sim)

OceanDrawSky ==
  /\ scene = "ocean"
  /\ \E d \in {-3, 0, 3} :
       SceneCall("drawSky", "drawHorizonGlow", drawSky(grid, frame, d), sim)

OceanDrawHorizonGlow ==
  scene = "ocean" /\ SceneCall("drawHorizonGlow", "drawWaveLayers",
                               drawHorizonGlow(grid, frame), sim)

OceanDrawWaveLayers ==
  /\ scene = "ocean"
  /\ \E w \in [1..Height -> [1..Width -> WaveGlyphs]] :
       SceneCall("drawWaveLayers", "drawFoam",
                 drawWaveLayers(grid, frame, w), sim)

OceanDrawFoam ==
  scene = "ocean" /\ SceneCall("drawFoam", "updatePlankton",
                               drawFoam(grid, frame), sim)

\* updatePlankton(&plankton, cfg.Width, cfg.Height), before drawPlankton
OceanUpdatePlankton ==
  /\ scene = "ocean" /\ pc = "updatePlankton"
  /\ \E spawn \in BOOLEAN, x \in 0..(Width - 1),
        y \in (Height \div 2)..(Height - 1) :
       /\ spawn => Len(sim.plankton) < MaxParticles
       /\ SceneCall("updatePlankton", "drawPlankton", grid,
                    [sim EXCEPT !.plankton =
                       updatePlankton(@, spawn, x, y, Height)])

OceanDrawPlankton ==
  scene = "ocean" /\ SceneCall("drawPlankton", "updateBubbles",
                               drawParticles(grid, sim.plankton, ".",
                                             PlanktonPalette[1]), sim)

\* updateBubbles(&bubbles, cfg.Width, cfg.Height), before drawBubbles
OceanUpdateBubbles ==
  /\ scene = "ocean" /\ pc = "updateBubbles"
  /\ \E spawn \in BOOLEAN, x \in 0..(Width - 1) :
       /\ spawn => Len(sim.bubbles) < MaxParticles
       /\ SceneCall("updateBubbles", "drawBubbles", grid,
                    [sim EXCEPT !.bubbles = updateBubbles(@, spawn, x, Height)])

OceanDrawBubbles ==
  scene = "ocean" /\ SceneCall("drawBubbles", "render",
                               drawParticles(grid, sim.bubbles, "o",
                                             FoamPalette[1]), sim)

\* ------------------------------------------ the scenes without a handler
PlainScenes == {"rain", "ocean"}

ScenesInit ==
  /\ scene \in PlainScenes
  /\ cells = <<>> /\ grid = <<>> /\ out = <<>>
  /\ call = NoArgs("new") /\ prev = "none" /\ nops = 0
  /\ pc = "start" /\ frame = 0 /\ angles = 0
  /\ wq = <<>> /\ wbuf = <<>> /\ sbuf = <<>> /\ fdmu = "none" /\ tty = <<>>
  /\ notified = FALSE /\ sigch = 0 /\ spc = "unborn"
  /\ alive = TRUE /\ nwrites = 0
  /\ sim = NoSim /\ cfg = NoConfig
  /\ term = TermAtStart

ScenesNext ==
  \/ RainStart
  \/ RainLoopNewGrid
  \/ RainDrawBackground
  \/ RainDrawMist
  \/ RainDrawDrizzle
  \/ RainDrawStreams
  \/ RainDrawSplashes
  \/ RainDrawReflections
  \/ RainLightning
  \/ RainUpdateSplashes
  \/ RainUpdateStreams
  \/ OceanStart
  \/ OceanClearGrid
  \/ OceanDrawSky
  \/ OceanDrawHorizonGlow
  \/ OceanDrawWaveLayers
  \/ OceanDrawFoam
  \/ OceanUpdatePlankton
  \/ OceanDrawPlankton
  \/ OceanUpdateBubbles
  \/ OceanDrawBubbles
  \/ SceneRender
  \/ SceneTick
  \/ Signal

SpecScenes == ScenesInit /\ [][ScenesNext]_vars

\* ----------------------------------------------------------- linePoints
Abs(v) == IF v < 0 THEN -v ELSE v

\* int(f) of Go for the rational n/d, d > 0: truncation toward zero.
Trunc(n, d) == IF n >= 0 THEN n \div d ELSE -((-n) \div d)

\* Go's int, here IntBits wide: every sum, difference, negation and doubling
\* wraps around.
IntBits == 5
MaxInt == 2^(IntBits - 1) - 1
MinInt == -(2^(IntBits - 1))
Wrap(n) == ((n - MinInt) % 2^IntBits) + MinInt

\* abs: -v wraps, so abs(MinInt) = MinInt.
abs(v) == IF v < 0 THEN Wrap(-v) ELSE v

\* The state of the loop of linePoints before its first iteration: dx, sx,
\* dy, sy, err, and the points slice made with capacity
\* max(abs(x1-x0), abs(y1-y0))+1; make panics on a negative capacity. from
\* keeps the arguments x0, y0, which the loop overwrites.
LineStart(x0, y0, x1, y1) ==
  LET dx == abs(Wrap(x1 - x0))
      dy == Wrap(-abs(Wrap(y1 - y0)))
      cap == Wrap(Max(abs(Wrap(x1 - x0)), abs(Wrap(y1 - y0))) + 1)
  IN [from |-> <<x0, y0>>, x0 |-> x0, y0 |-> y0, x1 |-> x1, y1 |-> y1,
      dx |-> dx, sx |-> IF x0 < x1 THEN 1 ELSE -1,
      dy |-> dy, sy |-> IF y0 < y1 THEN 1 ELSE -1,
      err |-> Wrap(dx + dy),
      points |-> <<>>, done |-> cap < 0, panic |-> cap < 0]

\* One iteration that takes the y step whatever e2 is.
LineIterBothSteps(l) ==
  LET pts == Append(l.points, <<l.x0, l.y0>>)
  IN IF l.x0 = l.x1 /\ l.y0 = l.y1
     THEN [l EXCEPT !.points = pts, !.done = TRUE]
     ELSE LET e2 == Wrap(2 * l.err)
              stepX == e2 >= l.dy
              err1 == IF stepX THEN Wrap(l.err + l.dy) ELSE l.err
              stepY == TRUE
          IN [l EXCEPT !.points = pts,
                       !.x0 = IF stepX THEN Wrap(@ + l.sx) ELSE @,
                       !.y0 = IF stepY THEN Wrap(@ + l.sy) ELSE @,
                       !.err = IF stepY THEN Wrap(err1 + l.dx) ELSE err1]

\* One iteration of the for loop of linePoints: append (x0,y0); break at
\* the end point; else e2 := 2*err and the two steps.
LineIter(l) ==
  LET pts == Append(l.points, <<l.x0, l.y0>>)
  IN IF l.x0 = l.x1 /\ l.y0 = l.y1
     THEN [l EXCEPT !.points = pts, !.done = TRUE]
     ELSE LET e2 == Wrap(2 * l.err)
              stepX == e2 >= l.dy
              err1 == IF stepX THEN Wrap(l.err + l.dy) ELSE l.err
              stepY == e2 <= l.dx
          IN [l EXCEPT !.points = pts,
                       !.x0 = IF stepX THEN Wrap(@ + l.sx) ELSE @,
                       !.y0 = IF stepY THEN Wrap(@ + l.sy) ELSE @,
                       !.err = IF stepY THEN Wrap(err1 + l.dx) ELSE err1]

RECURSIVE LineLoop(_)
LineLoop(l) == IF l.done THEN l.points ELSE LineLoop(LineIter(l))

linePoints(x0, y0, x1, y1) == LineLoop(LineStart(x0, y0, x1, y1))

\* -------------------------------------------------------- starfield.Run
\* A star's x and y are kept in tenths, its z and velocity in hundredths.
StarWidth == 6
StarHeight == 4
MaxStarFrames == 5
StarCount == 1
MinDepth == 12

StarPalette == <<"ESC[38;5;250m", "ESC[38;5;252m", "ESC[38;5;255m">>
TrailPalette == <<"ESC[38;5;240m", "ESC[38;5;245m">>
StarBackdropPalette == <<"ESC[38;5;236m", "ESC[38;5;235m">>
GlyphPalette == <<".", "+", "*">>

\* rand.Float64()*2 - 1, in tenths
StarCoords == {0, 2}
\* makeStars: z = rand.Float64()*0.7 + 0.4, in hundredths
MakeDepths == {40}
\* resetStar: z = rand.Float64()*1.1 + 0.5, in hundredths
ResetDepths == {50}
\* cfg.WarpSpeed * (0.7 + rand.Float64()*0.8) for a Config with WarpSpeed 0.1,
\* in hundredths
Velocities == {8, 10}

\* What one call of resetStar draws from rand.
StarDraws ==
  [x : StarCoords, y : StarCoords, z : ResetDepths, velocity : Velocities]

\* resetStar: x, y, z, velocity are drawn anew and hasPrev is cleared; prevX
\* and prevY stay.
resetStar(s, d) ==
  [s EXCEPT !.x = d.x, !.y = d.y, !.z = d.z, !.velocity = d.velocity,
            !.hasPrev = FALSE]

\* makeStars: every star is reset, then its z drawn once more.
makeStars ==
  {[i \in 1..StarCount |->
      [resetStar([x |-> 0, y |-> 0, z |-> 0, velocity |-> 0,
                  prevX |-> 0, prevY |-> 0, hasPrev |-> FALSE], ds[i])
       EXCEPT !.z = zs[i]]] :
     ds \in [1..StarCount -> StarDraws], zs \in [1..StarCount -> MakeDepths]}

\* projectStar: scale = min(width,height)*0.45,
\* x = int(width/2 + s.x*scale/s.z), y = int(height/2 + s.y*scale/(s.z*0.9)).
projectStar(s, width, height) ==
  LET m == Min(width, height)
      x == Trunc(10 * width * s.z + 90 * s.x * m, 20 * s.z)
      y == Trunc(height * s.z + 10 * s.y * m, 2 * s.z)
  IN IF s.z <= 0 THEN [ok |-> FALSE, x |-> 0, y |-> 0]
     ELSE IF x < 0 \/ x >= width \/ y < 0 \/ y >= height
          THEN [ok |-> FALSE, x |-> 0, y |-> 0]
          ELSE [ok |-> TRUE, x |-> x, y |-> y]

clampInt(v, lo, hi) == IF v < lo THEN lo ELSE IF v > hi THEN hi ELSE v

\* starColor: ratio = clampFloat(1-depth, 0, 0.95), index = int(ratio/0.4)
starColor(z, fr) ==
  LET index == Min(clampInt(100 - z, 0, 95) \div 40, Len(StarPalette) - 1)
      offset == (fr \div 24) % Len(StarPalette)
  IN StarPalette[((index + offset) % Len(StarPalette)) + 1]

\* starGlyph: index = int(clampFloat(1-depth, 0, 1) * len(glyphPalette))
starGlyph(z) ==
  GlyphPalette[Min((clampInt(100 - z, 0, 100) * Len(GlyphPalette)) \div 100,
                   Len(GlyphPalette) - 1) + 1]

drawTrailChar(z) == IF z > 60 THEN "." ELSE IF z > 30 THEN "-" ELSE "~"

RECURSIVE TrailCells(_, _, _, _, _)
TrailCells(g, points, idx, glyph, color) ==
  IF idx >= Len(points) THEN g
  ELSE TrailCells(setIfEmpty(g, points[idx][1], points[idx][2], glyph, color),
                  points, idx + 1, glyph, color)

\* drawTrail: setIfEmpty on every point of the line but the last.
drawTrail(g, x0, y0, x1, y1, z) ==
  LET points == linePoints(x0, y0, x1, y1)
      colorIndex == clampInt(Trunc((100 - z) * Len(TrailPalette), 100),
                             0, Len(TrailPalette) - 1)
  IN IF Len(points) <= 1 THEN g
     ELSE TrailCells(g, points, 1, drawTrailChar(z), TrailPalette[colorIndex + 1])

\* The body of the loop of drawStars for one star, d being what resetStar
\* would draw; the reset on z <= minDepth left out.
drawStarNoDepthReset(g, s, fr, d) ==
  LET p == projectStar(s, Len(g[1]), Len(g))
  IN IF ~p.ok THEN [grid |-> g, star |-> resetStar(s, d)]
     ELSE LET g1 == IF s.hasPrev
                    THEN drawTrail(g, s.prevX, s.prevY, p.x, p.y, s.z) ELSE g
              g2 == setCell(g1, p.x, p.y, starGlyph(s.z), starColor(s.z, fr))
              s1 == [s EXCEPT !.prevX = p.x, !.prevY = p.y, !.hasPrev = TRUE,
                              !.z = @ - s.velocity]
          IN [grid |-> g2, star |-> s1]

\* The body of the loop of drawStars for one star, d being what resetStar
\* would draw.
drawStar(g, s, fr, d) ==
  LET p == projectStar(s, Len(g[1]), Len(g))
  IN IF ~p.ok THEN [grid |-> g, star |-> resetStar(s, d)]
     ELSE LET g1 == IF s.hasPrev
                    THEN drawTrail(g, s.prevX, s.prevY, p.x, p.y, s.z) ELSE g
              g2 == setCell(g1, p.x, p.y, starGlyph(s.z), starColor(s.z, fr))
              s1 == [s EXCEPT !.prevX = p.x, !.prevY = p.y, !.hasPrev = TRUE,
                              !.z = @ - s.velocity]
          IN [grid |-> g2,
              star |-> IF s1.z <= MinDepth THEN resetStar(s1, d) ELSE s1]

\* drawStars: the stars in order, ds[i] being the draw for star i.
RECURSIVE drawStars(_, _, _, _, _)
drawStars(g, stars, fr, ds, i) ==
  IF i > Len(stars) THEN [grid |-> g, stars |-> stars]
  ELSE LET r == drawStar(g, stars[i], fr, ds[i])
       IN drawStars(r.grid, [stars EXCEPT ![i] = r.star], fr, ds, i + 1)

\* drawBackdrop of starfield: a '.' every 6 columns on every 4th row, a '+'
\* at the centre, all through setIfEmpty.
starDrawBackdrop(g, fr) ==
  [y \in 1..Len(g) |-> [x \in 1..Len(g[1]) |->
     LET first == (((y - 1) \div 2) + fr) % 6
         dot == /\ (y - 1) % 4 = 0
                /\ x - 1 >= first
                /\ (x - 1 - first) % 6 = 0
     IN IF g[y][x].glyph # Space THEN g[y][x]
        ELSE IF dot
             THEN FlatCell(".", StarBackdropPalette[
                    ((((y - 1) \div 4) + (fr \div 20)) % Len(StarBackdropPalette)) + 1])
        ELSE IF x - 1 = Len(g[1]) \div 2 /\ y - 1 = Len(g) \div 2
             THEN FlatCell("+", "ESC[38;5;238m")
        ELSE g[y][x]]]

\* starfield.Run up to the loop: fmt.Print(ansiHide, ansiClear), makeStars.
StarStart ==
  /\ alive /\ scene = "starfield" /\ pc = "start"
  /\ out' = <<HideCursor, ClearScreen>>
  /\ tty' = Deliver(tty, <<HideCursor, ClearScreen>>)
  /\ term' = Screen(term, <<HideCursor, ClearScreen>>)
  /\ \E stars \in makeStars : sim' = [stars |-> stars]
  /\ pc' = "newGrid"
  /\ UNCHANGED <<cfg, scene, cells, grid, call, prev, nops, frame, angles, wq,
                 wbuf, sbuf, fdmu, notified, sigch, spc, alive, nwrites>>

StarNewGrid ==
  scene = "starfield" /\ SceneCall("newGrid", "drawBackdrop",
                                   NewGridRain(StarWidth, StarHeight), sim)

StarDrawBackdrop ==
  scene = "starfield" /\ SceneCall("drawBackdrop", "drawStars",
                                   starDrawBackdrop(grid, frame), sim)

\* drawStars(grid, stars, cfg, frame)
StarDrawStars ==
  /\ scene = "starfield" /\ pc = "drawStars"
  /\ \E ds \in [1..Len(sim.stars) -> StarDraws] :
       LET r == drawStars(grid, sim.stars, frame, ds, 1)
       IN SceneCall("drawStars", "render", r.grid, [sim EXCEPT !.stars = r.stars])

StarRender ==
  /\ alive /\ scene = "starfield" /\ pc = "render"
  /\ out' = RenderBytes(grid)
  /\ tty' = Deliver(tty, RenderBytes(grid))
  /\ term' = Screen(term, RenderBytes(grid))
  /\ nwrites' = nwrites + 1
  /\ pc' = "wait"
  /\ UNCHANGED <<sim, cfg, scene, cells, grid, call, prev, nops, frame, angles,
                 wq, wbuf, sbuf, fdmu, notified, sigch, spc, alive>>

\* <-ticker.C, then frame++
StarTick ==
  /\ alive /\ scene = "starfield" /\ pc = "wait"
  /\ frame + 1 < MaxStarFrames
  /\ frame' = frame + 1
  /\ nwrites' = 0
  /\ pc' = "newGrid"
  /\ UNCHANGED <<term, sim, cfg, scene, cells, grid, out, call, prev, nops, angles,
                 wq, wbuf, sbuf, fdmu, tty, notified, sigch, spc, alive>>

\* ------------------------------------------------ rain: updateStreams
StreamCount == 1

\* updateStreams without the reset.
RECURSIVE updateStreamsNoReset(_, _, _, _, _)
updateStreamsNoReset(streams, width, height, ds, i) ==
  IF i > Len(streams) THEN streams
  ELSE updateStreamsNoReset([streams EXCEPT ![i].head = @ + 1],
                            width, height, ds, i + 1)

\* updateStreams: every head moves on (one row a call); a stream with
\* int(head) - length > height becomes what resetStream(.., false) draws,
\* ds[i] for stream i.
RECURSIVE updateStreams(_, _, _, _, _)
updateStreams(streams, width, height, ds, i) ==
  IF i > Len(streams) THEN streams
  ELSE LET moved == [streams[i] EXCEPT !.head = @ + 1]
       IN updateStreams(
            [streams EXCEPT ![i] = IF moved.head - moved.length > height
                                   THEN ds[i] ELSE moved],
            width, height, ds, i + 1)

\* The streams of rain.Run between two frames, updateStreams called on them
\* over and over.
UpdateStreams ==
  /\ alive /\ scene = "rain" /\ pc = "updateStreams"
  /\ \E ds \in [1..Len(sim.streams) -> ResetStreams(Width, Height, FALSE)] :
       sim' = [sim EXCEPT !.streams = updateStreams(@, Width, Height, ds, 1),
                          !.before = sim.streams]
  /\ UNCHANGED <<term, cfg, scene, cells, grid, out, call, prev, nops, pc, frame,
                 angles, wq, wbuf, sbuf, fdmu, tty, notified, sigch, spc, alive,
                 nwrites>>

EntitiesInit ==
  /\ scene \in {"starfield", "rain"}
  /\ cells = <<>> /\ grid = <<>> /\ out = <<>>
  /\ call = NoArgs("new") /\ prev = "none" /\ nops = 0
  /\ pc = (IF scene = "rain" THEN "updateStreams" ELSE "start")
  /\ frame = 0 /\ angles = 0
  /\ wq = <<>> /\ wbuf = <<>> /\ sbuf = <<>> /\ fdmu = "none" /\ tty = <<>>
  /\ notified = FALSE /\ sigch = 0 /\ spc = "unborn"
  /\ alive = TRUE /\ nwrites = 0
  /\ cfg = NoConfig
  /\ term = TermAtStart
  /\ IF scene = "rain"
     THEN \E ss \in [1..StreamCount -> ResetStreams(Width, Height, TRUE)] :
            sim = [streams |-> ss, before |-> ss]
     ELSE sim = NoSim

EntitiesNext ==
  \/ StarStart
  \/ StarNewGrid
  \/ StarDrawBackdrop
  \/ StarDrawStars
  \/ StarRender
  \/ StarTick
  \/ UpdateStreams

SpecEntities == EntitiesInit /\ [][EntitiesNext]_vars

\* ------------------------------------------------------------------ main
\* The modes the README lists for -mode.
ReadmeModes ==
  {"cybercube", "rain", "spectrum", "cloud", "starfield", "tunnel", "orbit",
   "plasma", "skyline", "ocean", "aurora"}

\* The values -mode is driven with: the README's, two further spellings of
\* spectrum, and one that names nothing.
ModeArgs == ReadmeModes \cup {"equalizer", "SCOPE", "bogus"}

\* strings.ToLower on the values above.
ToLower(m) == IF m = "SCOPE" THEN "scope" ELSE m

\* The cases of the switch in main: the package each one runs.
ModeCases ==
  [cybercube |-> "cybercube", cube |-> "cybercube",
   rain |-> "rain", neonrain |-> "rain",
   spectrum |-> "spectrum", equalizer |-> "spectrum", scope |-> "spectrum"]

\* fmt.Printf("unknown mode %q (expected cybercube | rain | spectrum)\n"):
\* plain text and a newline, here the first two words of it.
UnknownModeText ==
  <<"u", "n", "k", "n", "o", "w", "n", " ", "m", "o", "d", "e", "\n">>

MainInit ==
  /\ scene = "main"
  /\ cells = <<>> /\ grid = <<>> /\ out = <<>>
  /\ call = NoArgs("new") /\ prev = "none" /\ nops = 0
  /\ pc = "main" /\ frame = 0 /\ angles = 0
  /\ wq = <<>> /\ wbuf = <<>> /\ sbuf = <<>> /\ fdmu = "none" /\ tty = <<>>
  /\ notified = FALSE /\ sigch = 0 /\ spc = "unborn"
  /\ alive = TRUE /\ nwrites = 0
  /\ sim = NoSim
  /\ \E m \in ModeArgs : cfg = [mode |-> m]
  /\ term = TermAtStart

\* main with a default case that runs cybercube.
MainSwitchDefaultCube ==
  /\ alive /\ pc = "main"
  /\ LET m == ToLower(cfg.mode)
         pkg == IF m \in DOMAIN ModeCases THEN ModeCases[m] ELSE "cybercube"
     IN /\ scene' = pkg
        /\ pc' = IF pkg = "cybercube" THEN "hide" ELSE "start"
  /\ UNCHANGED <<term, sim, cfg, cells, grid, out, call, prev, nops, frame, angles,
                 wq, wbuf, sbuf, fdmu, tty, notified, sigch, spc, alive, nwrites>>

\* main: switch strings.ToLower(*mode), a case that names a package:
\* cfg := pkg.DefaultConfig(); applyOverrides(..); pkg.Run(cfg) is entered.
MainSwitch ==
  /\ alive /\ pc = "main"
  /\ ToLower(cfg.mode) \in DOMAIN ModeCases
  /\ scene' = ModeCases[ToLower(cfg.mode)]
  /\ pc' = IF ModeCases[ToLower(cfg.mode)] = "cybercube" THEN "hide" ELSE "start"
  /\ UNCHANGED <<term, sim, cfg, cells, grid, out, call, prev, nops, frame, angles,
                 wq, wbuf, sbuf, fdmu, tty, notified, sigch, spc, alive, nwrites>>

\* main: the default case prints the message and main returns.
MainUnknown ==
  /\ alive /\ pc = "main"
  /\ ToLower(cfg.mode) \notin DOMAIN ModeCases
  /\ out' = UnknownModeText
  /\ tty' = Deliver(tty, UnknownModeText)
  /\ term' = Screen(term, UnknownModeText)
  /\ pc' = "returned"
  /\ UNCHANGED <<sim, cfg, scene, cells, grid, call, prev, nops, frame, angles, wq,
                 wbuf, sbuf, fdmu, notified, sigch, spc, alive, nwrites>>

\* main, then cybercube.Run or rain.Run as the model has them.
MainNext ==
  \/ MainSwitch
  \/ MainUnknown
  \/ LoopNext
  \/ RainStart
  \/ RainLoopNewGrid
  \/ RainDrawBackground
  \/ RainDrawMist
  \/ RainDrawDrizzle
  \/ RainDrawStreams
  \/ RainDrawSplashes
  \/ RainDrawReflections
  \/ RainLightning
  \/ RainUpdateSplashes
  \/ RainUpdateStreams
  \/ SceneRender
  \/ SceneTick

SpecMain == MainInit /\ [][MainNext]_vars

\* ------------------------------------- Set calls with their history kept
MaxSets == 3

\* The in-bounds coordinates and the non-space glyphs, with their colours,
\* the Set calls are driven with.
PaintCoords == {<<0, 0>>, <<Width - 1, Height - 1>>}
Paints ==
  {<<"X", "ESC[38;5;45m">>, <<"Y", "ESC[38;5;81m">>, <<"X", "ESC[38;5;81m">>}

\* newGrid; sim holds the Set calls made since the last Clear, in order.
PaintInit ==
  /\ scene = "cybercube"
  /\ cells = NewGridBuffer(Width, Height)
  /\ grid = <<>> /\ out = <<>>
  /\ call = NoArgs("new") /\ prev = "none" /\ nops = 0
  /\ pc = "idle" /\ frame = 0 /\ angles = 0
  /\ wq = <<>> /\ wbuf = <<>> /\ sbuf = <<>> /\ fdmu = "none" /\ tty = <<>>
  /\ notified = FALSE /\ sigch = 0 /\ spc = "unborn"
  /\ alive = TRUE /\ nwrites = 0
  /\ sim = <<>> /\ cfg = NoConfig
  /\ term = TermAtStart

\* gridBuffer.Clear
PaintClear ==
  /\ sim # <<>>
  /\ cells' = ClearCells(cells)
  /\ sim' = <<>>
  /\ call' = Called("Clear", 0, 0, Space, NoColor, 0, At(cells, 0, 0))
  /\ prev' = call.op
  /\ UNCHANGED <<term, cfg, scene, grid, out, nops>>
  /\ UNCHANGED loopvars

\* gridBuffer.Set, in bounds, the glyph not a space
PaintSet ==
  /\ Len(sim) < MaxSets
  /\ \E p \in PaintCoords, paint \in Paints, depth \in Depths :
       /\ cells' = GridSet(cells, p[1], p[2], paint[1], paint[2], depth)
       /\ call' = Called("Set", p[1], p[2], paint[1], paint[2], depth,
                         Target(cells, p[1], p[2]))
       /\ sim' = Append(sim, call')
  /\ prev' = call.op
  /\ UNCHANGED <<term, cfg, scene, grid, out, nops>>
  /\ UNCHANGED loopvars

PaintNext == PaintClear \/ PaintSet

SpecPaint == PaintInit /\ [][PaintNext]_vars

\* --------------------------------------------- linePoints, step by step
\* The coordinates the end points are drawn from: screen coordinates and the
\* two ends of the int range.
LineCoords == {MinInt, -2, 0, 1, 3, MaxInt}

\* linePoints is called; sim holds the state of its loop.
LineInit ==
  /\ scene = "cybercube"
  /\ cells = <<>> /\ grid = <<>> /\ out = <<>>
  /\ call = NoArgs("linePoints") /\ prev = "none" /\ nops = 0
  /\ pc = "linePoints" /\ frame = 0 /\ angles = 0
  /\ wq = <<>> /\ wbuf = <<>> /\ sbuf = <<>> /\ fdmu = "none" /\ tty = <<>>
  /\ notified = FALSE /\ sigch = 0 /\ spc = "unborn"
  /\ alive = TRUE /\ nwrites = 0
  /\ cfg = NoConfig
  /\ term = TermAtStart
  /\ \E x0 \in LineCoords, y0 \in LineCoords, x1 \in LineCoords,
        y1 \in LineCoords : sim = LineStart(x0, y0, x1, y1)

\* One iteration of the loop; a run is followed for one lap of the int range
\* and one iteration more.
LineStep ==
  /\ pc = "linePoints" /\ ~sim.done
  /\ Len(sim.points) <= 2^IntBits
  /\ sim' = LineIter(sim)
  /\ UNCHANGED <<term, cfg, scene, cells, grid, out, call, prev, nops, pc, frame,
                 angles, wq, wbuf, sbuf, fdmu, tty, notified, sigch, spc, alive,
                 nwrites>>

\* return points
LineReturn ==
  /\ pc = "linePoints" /\ sim.done /\ ~sim.panic
  /\ pc' = "returned"
  /\ UNCHANGED <<term, sim, cfg, scene, cells, grid, out, call, prev, nops, frame,
                 angles, wq, wbuf, sbuf, fdmu, tty, notified, sigch, spc, alive,
                 nwrites>>

LineNext == LineStep \/ LineReturn

SpecLine == LineInit /\ [][LineNext]_vars

\* ------------------------------------------- rain: the splashes, in full
\* A splash with x, y, vx, vy in hundredths of a cell and its life; calls
\* counts the updateSplashes calls it has been through.
\* What emitSplash draws for one splash: the offset rand*0.6 - 0.3 from the
\* column, vx = rand*0.8 - 0.4, vy = -0.6 - rand*0.7 and the life, here
\* 10 + rand.Intn(11).
SplashDrawsLonger ==
  {[dx |-> -30, vx |-> -40, vy |-> -60, life |-> 10],
   [dx |-> 0, vx |-> 0, vy |-> -60, life |-> 20],
   [dx |-> 0, vx |-> 0, vy |-> -129, life |-> 20],
   [dx |-> 29, vx |-> 39, vy |-> -129, life |-> 10]}

\* What emitSplash draws for one splash: the offset rand*0.6 - 0.3 from the
\* column, vx = rand*0.8 - 0.4, vy = -0.6 - rand*0.7 and the life
\* 10 + rand.Intn(10).
SplashDraws ==
  {[dx |-> -30, vx |-> -40, vy |-> -60, life |-> 10],
   [dx |-> 0, vx |-> 0, vy |-> -60, life |-> 19],
   [dx |-> 0, vx |-> 0, vy |-> -129, life |-> 19],
   [dx |-> 29, vx |-> 39, vy |-> -129, life |-> 10]}

\* count := 2 + rand.Intn(3)
SplashCounts == {2}

\* emitSplash(splashes, x, height): ds[i] is what is drawn for splash i.
emitSplashes(items, x, height, ds) ==
  items \o [i \in 1..Len(ds) |->
              [x |-> 100 * x + ds[i].dx, y |-> 100 * (height - 2),
               vx |-> ds[i].vx, vy |-> ds[i].vy, life |-> ds[i].life,
               calls |-> 0]]

\* The body of the loop of updateSplashes up to its tests.
moveSplash(sp) ==
  [sp EXCEPT !.x = @ + sp.vx, !.y = @ + sp.vy, !.vy = @ + 8, !.life = @ - 1,
             !.calls = @ + 1]

\* updateSplashes: dst := items[:0]; every item is moved and aged, and
\* appended to dst unless it left the grid sideways, reached the last row or
\* ran out of life.
RECURSIVE updateSplashItems(_, _, _, _, _)
updateSplashItems(items, dst, i, width, height) ==
  IF i > Len(items) THEN dst
  ELSE LET sp == moveSplash(items[i])
       IN IF sp.x < 0 \/ sp.x >= 100 * width
          THEN updateSplashItems(items, dst, i + 1, width, height)
          ELSE IF sp.y >= 100 * (height - 1)
          THEN updateSplashItems(items, dst, i + 1, width, height)
          ELSE IF sp.life <= 0
          THEN updateSplashItems(items, dst, i + 1, width, height)
          ELSE updateSplashItems(items, Append(dst, sp), i + 1, width, height)

SplashInit ==
  /\ scene = "rain"
  /\ cells = <<>> /\ grid = <<>> /\ out = <<>>
  /\ call = NoArgs("new") /\ prev = "none" /\ nops = 0
  /\ pc = "drawStreams" /\ frame = 0 /\ angles = 0
  /\ wq = <<>> /\ wbuf = <<>> /\ sbuf = <<>> /\ fdmu = "none" /\ tty = <<>>
  /\ notified = FALSE /\ sigch = 0 /\ spc = "unborn"
  /\ alive = TRUE /\ nwrites = 0
  /\ cfg = NoConfig
  /\ term = TermAtStart
  /\ sim = [splashes |-> <<>>, before |-> <<>>]

\* drawStreams, the splash list: a stream's head on one of the last two rows
\* calls emitSplash, or none does; the stream is in the last column.
SplashEmit ==
  /\ pc = "drawStreams"
  /\ \/ UNCHANGED sim
     \/ \E n \in SplashCounts, x \in {Width - 1} :
          /\ Len(sim.splashes) + n <= MaxParticles
          /\ \E ds \in [1..n -> SplashDraws] :
               sim' = [sim EXCEPT !.splashes = emitSplashes(@, x, Height, ds)]
  /\ pc' = "updateSplashes"
  /\ UNCHANGED <<term, cfg, scene, cells, grid, out, call, prev, nops, frame,
                 angles, wq, wbuf, sbuf, fdmu, tty, notified, sigch, spc, alive,
                 nwrites>>

\* updateSplashes(&splashes, cfg.Width, cfg.Height); before keeps the list
\* the call was made on.
SplashUpdate ==
  /\ pc = "updateSplashes"
  /\ sim' = [splashes |-> updateSplashItems(sim.splashes, <<>>, 1, Width, Height),
             before |-> sim.splashes]
  /\ pc' = "drawStreams"
  /\ UNCHANGED <<term, cfg, scene, cells, grid, out, call, prev, nops, frame,
                 angles, wq, wbuf, sbuf, fdmu, tty, notified, sigch, spc, alive,
                 nwrites>>

SplashNext == SplashEmit \/ SplashUpdate

SpecSplash == SplashInit /\ [][SplashNext]_vars

\* ---------------------------------------------------------------- claims
WriteOps == {"Set", "SetIfEmpty", "setCell", "setIfEmpty"}

\* The buffer of the scene in use.
Buffer == IF scene = "cybercube" THEN cells ELSE grid

Shows(c, k) == c.glyph = k.glyph /\ c.color = k.color

\* A step that is the second of two consecutive Set calls to one in-bounds
\* coordinate whose cell was unpainted before the first, with two depths.
TwoSets ==
  /\ scene = "cybercube"
  /\ call.op = "Set" /\ call'.op = "Set"
  /\ nops' = nops + 1
  /\ call'.x = call.x /\ call'.y = call.y
  /\ InBounds(cells, call.x, call.y)
  /\ call.was.glyph = Space
  /\ call.depth # call'.depth

\* C1 as stated: on a cell unpainted beforehand, two Set calls to the same
\* in-bounds coordinate with depths d1 < d2, in either order and with any
\* glyphs and colours, leave the cell with the glyph and colour of the d1 call.
C1_AnyGlyphs ==
  [][TwoSets =>
       IF call.depth < call'.depth
       THEN Shows(At(cells', call.x, call.y), call)
       ELSE Shows(At(cells', call.x, call.y), call')]_vars

\* C1 amended: the cell ends with the glyph and colour of the d1 call, unless
\* the d1 call comes first and its glyph is a space: the cell then still
\* counts as unpainted and ends with the glyph and colour of the d2 call.
C1_NearerWins ==
  [][TwoSets =>
       IF call.depth < call'.depth /\ call.glyph # Space
       THEN Shows(At(cells', call.x, call.y), call)
       ELSE Shows(At(cells', call.x, call.y), call')]_vars

\* Two Set calls since Clear, both to this cell: the first painted it at the
\* smaller depth, the second (farther, another glyph) left it as it was.
C1_Witness ==
  /\ scene = "cybercube" /\ nops = 2
  /\ prev = "Set" /\ call.op = "Set"
  /\ InBounds(cells, call.x, call.y)
  /\ call.was.glyph \notin {Space, "none"}
  /\ call.was.depth < call.depth
  /\ call.glyph \notin {Space, call.was.glyph}
  /\ At(cells, call.x, call.y) = call.was

\* C2: Set on an in-bounds cell replaces glyph, colour and depth exactly when
\* the cell's glyph is a space or the new depth is strictly smaller than the
\* stored one; otherwise (equal depths included) the cell keeps what it held.
C2_SetRule ==
  [][(scene = "cybercube" /\ call'.op = "Set" /\ nops' = nops + 1
        /\ InBounds(cells, call'.x, call'.y)) =>
       LET cur == At(cells, call'.x, call'.y)
           new == At(cells', call'.x, call'.y)
       IN IF cur.glyph = Space \/ call'.depth < cur.depth
          THEN new = Cell(call'.glyph, call'.color, call'.depth)
          ELSE new = cur]_vars

\* A Set of another glyph at the depth the painted cell already has, kept out.
C2_Witness ==
  /\ scene = "cybercube" /\ call.op = "Set"
  /\ InBounds(cells, call.x, call.y)
  /\ call.was.glyph \notin {Space, "none"}
  /\ call.depth = call.was.depth
  /\ call.glyph \notin {Space, call.was.glyph}
  /\ At(cells, call.x, call.y) = call.was

\* C3: a Set, SetIfEmpty, setCell or setIfEmpty call with x < 0, x >= width,
\* y < 0 or y >= height leaves every cell of the buffer as it was.
C3_OutOfRangeNoOp ==
  [][(call'.op \in WriteOps /\ nops' = nops + 1
        /\ (call'.x < 0 \/ call'.x >= Width \/ call'.y < 0 \/ call'.y >= Height))
       => (cells' = cells /\ grid' = grid)]_vars

\* A Set one column right of a buffer whose last row holds a painted cell.
C3_Witness ==
  /\ scene = "cybercube" /\ call.op = "Set"
  /\ call.x = Width /\ call.y = Height - 1 /\ call.glyph = "Y"
  /\ At(cells, 1, Height - 1).glyph = "X"

\* C4: once a cell holds a non-space glyph, a SetIfEmpty to its coordinate
\* leaves the cell as it is.
C4_SetIfEmptyKeeps ==
  [][(scene = "cybercube" /\ call'.op = "SetIfEmpty" /\ nops' = nops + 1
        /\ InBounds(cells, call'.x, call'.y)
        /\ At(cells, call'.x, call'.y).glyph # Space) =>
       At(cells', call'.x, call'.y) = At(cells, call'.x, call'.y)]_vars

\* SetIfEmpty after SetIfEmpty on one cell, other glyph and colour: the first
\* stays.
C4_Witness ==
  /\ scene = "cybercube" /\ prev = "SetIfEmpty" /\ call.op = "SetIfEmpty"
  /\ InBounds(cells, call.x, call.y)
  /\ call.was.glyph \notin {Space, "none"}
  /\ call.glyph \notin {Space, call.was.glyph}
  /\ call.color # call.was.color
  /\ At(cells, call.x, call.y) = call.was

\* C5: after Clear every cell is the unpainted sentinel: glyph space, no
\* colour, the maximal depth.
C5_ClearResets ==
  (scene = "cybercube" /\ call.op = "Clear") =>
    \A y \in 0..(Height - 1), x \in 0..(Width - 1) :
      /\ At(cells, x, y).glyph = Space
      /\ At(cells, x, y).color = NoColor
      /\ At(cells, x, y).depth = MaxFloat64

\* Clear has just run on a buffer whose first cell was painted.
C5_Witness ==
  /\ scene = "cybercube" /\ call.op = "Clear"
  /\ call.was.glyph = "X" /\ call.was.depth < MaxFloat64
  /\ At(cells, 0, 0) = Unpainted

Repeat(n, s) == [i \in 1..(n * Len(s)) |-> s[((i - 1) % Len(s)) + 1]]

BlankRow == Repeat(Width, <<Space>>) \o <<Reset, Newline>>

BlankFrame == <<Home>> \o Repeat(Height, BlankRow)

\* C6: Render right after Clear writes the cursor-home escape, then height
\* rows of width spaces with no colour escape, each ended by reset, newline.
C6_BlankAfterClear ==
  (scene = "cybercube" /\ prev = "Clear" /\ call.op = "Render") =>
    out = BlankFrame

\* Clear, then Render, of a buffer that had been painted.
C6_Witness ==
  /\ scene = "cybercube" /\ prev = "Clear" /\ call.op = "Render"
  /\ Len(out) = 1 + Height * (Width + 2)

\* The frame grammar: position after the cells of a row matched from s[i]
\* on, each glyph either bare or right after its own colour escape; 0 when
\* the bytes do not match.
RECURSIVE MatchCells(_, _, _)
MatchCells(s, i, row) ==
  IF row = <<>> THEN i
  ELSE LET c == Head(row)
       IN IF i <= Len(s) /\ s[i] = c.glyph /\ s[i] \notin ColorEscapes
          THEN MatchCells(s, i + 1, Tail(row))
          ELSE IF /\ i + 1 <= Len(s)
                  /\ s[i] \in ColorEscapes /\ s[i] = c.color
                  /\ s[i + 1] = c.glyph
               THEN MatchCells(s, i + 2, Tail(row))
               ELSE 0

RECURSIVE MatchRows(_, _, _)
MatchRows(s, i, rows) ==
  IF rows = <<>> THEN i
  ELSE LET j == MatchCells(s, i, Head(rows))
       IN IF j # 0 /\ j + 1 <= Len(s) /\ s[j] = Reset /\ s[j + 1] = Newline
          THEN MatchRows(s, j + 2, Tail(rows))
          ELSE 0

Count(s, set) == Cardinality({i \in 1..Len(s) : s[i] \in set})

\* C7: a frame is one cursor-home escape, then exactly height rows top to
\* bottom, each exactly width glyph bytes left to right, a glyph optionally
\* preceded by its colour escape, each row ended by reset and newline, and
\* nothing else.
C7_FrameGrammar ==
  (scene \in {"cybercube", "rain"} /\ call.op \in {"Render", "render"}) =>
    /\ Len(out) >= 1 /\ out[1] = Home
    /\ MatchRows(out, 2, Buffer) = Len(out) + 1
    /\ Count(out, {Home}) = 1
    /\ Count(out, {Newline}) = Height
    /\ Count(out, {Reset}) = Height
    /\ Count(out, Glyphs) = Width * Height
    /\ \A i \in 1..Len(out) :
         out[i] \in {Home, Reset, Newline} \cup Colors \cup Glyphs

\* A rendered frame whose first and last rows differ and that carries a
\* colour escape.
C7_Witness ==
  /\ scene = "cybercube" /\ call.op = "Render"
  /\ At(cells, 0, 0).glyph = "X" /\ At(cells, 0, 0).color \in Colors
  /\ At(cells, 1, Height - 1).glyph = "Y"
  /\ Count(out, Colors) = 2

\* The bytes s are one whole frame of the buffer g.
IsFrame(s, g) ==
  /\ Len(s) >= 1 /\ s[1] = Home
  /\ MatchRows(s, 2, g) = Len(s) + 1

\* C8: in every tick the main goroutine issues exactly one write, whose
\* bytes are the whole frame, and the bytes Restore writes from the signal
\* goroutine reach the terminal outside the bytes of a frame.
C8_OneWholeFramePerTick ==
  /\ pc \in {"clear", "backdrop", "cubes", "render"} => nwrites = 0
  /\ pc = "print" => (nwrites <= 1 /\ (nwrites = 1 => fdmu = "main"))
  /\ pc \in {"update", "wait"} => nwrites = 1
  /\ (pc = "print" /\ fdmu = "main") => IsFrame(out, cells)
  /\ \A i \in 1..Len(tty) :
       tty[i] = ShowCursor =>
         /\ \/ Count(SubSeq(tty, 1, i), {Home}) = 0
            \/ Count(SubSeq(tty, 1, i), {Newline}) = Height
         /\ i < Len(tty) => tty[i + 1] = Reset

\* Restore's bytes are arriving right behind the whole frame of the first
\* tick while the main goroutine stands ready to write the second frame.
C8_Witness ==
  /\ alive /\ frame = 1 /\ pc = "print" /\ nwrites = 0
  /\ fdmu = "sig" /\ sbuf = <<Reset>>
  /\ Len(tty) > 1 /\ tty[1] = Home /\ tty[Len(tty)] = ShowCursor

\* C11: the bytes a renderer writes hold no zero glyph byte: a cell whose
\* glyph is the zero byte is written as a space.
C11_NoZeroGlyph ==
  (call.op \in {"Render", "render"}) => Count(out, {Zero}) = 0

\* The calls of a loop body by the phase they belong to; pc names the call
\* the main goroutine makes next.
ClearCalls == {"clear", "newGrid", "clearGrid"}
DrawCalls ==
  {"backdrop", "cubes", "drawBackground", "drawMist", "drawDrizzle",
   "drawStreams", "drawSplashes", "drawReflections", "drawSky",
   "drawHorizonGlow", "drawWaveLayers", "drawFoam", "drawPlankton",
   "drawBubbles"}
FlushCalls == {"render", "print"}
AdvanceCalls ==
  {"update", "updateSplashes", "updateStreams", "updatePlankton",
   "updateBubbles"}
WaitCalls == {"wait"}
LoopCalls ==
  ClearCalls \cup DrawCalls \cup {"lightning"} \cup FlushCalls
    \cup AdvanceCalls \cup WaitCalls

Rank(c) ==
  CASE c \in ClearCalls -> 1
    [] c \in DrawCalls \cup {"lightning"} -> 2
    [] c \in FlushCalls -> 3
    [] c \in AdvanceCalls -> 4
    [] c \in WaitCalls -> 5

\* The simulation state of the scene: cybercube's angles, the particles,
\* streams and bolt of the others.
SceneState == <<angles, sim>>

\* C12: in every tick the calls come in the order Clear, draws, Flush,
\* Advance, Wait: the loop body starts with the Clear, no call of an earlier
\* phase follows one of a later phase within a tick, and an advance call is
\* made only once the frame of the tick has been written.
C12_PhaseOrder ==
  [][/\ (pc \notin LoopCalls /\ pc' \in LoopCalls) => Rank(pc') = 1
     /\ (pc \in LoopCalls /\ pc' \in LoopCalls /\ pc' # pc) =>
          \/ Rank(pc') >= Rank(pc)
          \/ (Rank(pc) = 5 /\ Rank(pc') = 1)
     /\ pc \in AdvanceCalls => nwrites >= 1]_vars

\* C13: a draw call leaves the scene state as it was, and within the loop the
\* scene state changes only in the advance calls.
C13_DrawKeepsState ==
  [][/\ pc \in DrawCalls => SceneState' = SceneState
     /\ (pc \in LoopCalls /\ SceneState' # SceneState) => pc \in AdvanceCalls]_vars

\* The show-cursor and reset sequences have been written: they are on the
\* terminal, or the signal goroutine is past its Restore.
Restored ==
  \/ spc = "exit"
  \/ \E i \in 1..(Len(tty) - 1) : tty[i] = ShowCursor /\ tty[i + 1] = Reset

\* C14: a process that a signal ended while its loop was running has written
\* the show-cursor and reset sequences.
C14_RestoredBeforeExit ==
  (~alive /\ pc \in LoopCalls) => Restored

\* C15: the signal goroutine of term.Start works on the channel, the
\* terminal and the process only. Whatever the main goroutine is doing when
\* one of its steps is taken (<-sig, the fmt.Print of Restore, os.Exit), the
\* step leaves the frame buffer, the scene state, the loop counter and the
\* main goroutine's position and pending output as they were.
SigStep ==
  \/ (spc # "unborn" /\ spc' # spc)
  \/ sbuf' # sbuf
  \/ (spc = "exit" /\ alive /\ ~alive')

C15_HandlerLeavesBuffer ==
  [][SigStep =>
       UNCHANGED <<cells, grid, SceneState, frame, nops, pc, wq, wbuf>>]_vars

\* The handler has run Restore while the main goroutine stood in the middle
\* of drawing a frame, a vertex already painted.
C15_Witness ==
  /\ spc = "exit" /\ alive /\ pc = "cubes" /\ nops >= 1
  /\ \E y \in 1..Height, x \in 1..Width : cells[y][x].glyph \in CubeGlyphs

\* C16: the deferred cleanup and the signal goroutine print the same
\* Restore, and Restore is idempotent on the terminal: whenever the fmt.Print
\* of a Restore completes, the first or the second, in either order and
\* whatever frame write came before or between, the cursor is shown and no
\* colour is in force; so the state after both equals the state after one.
RestoreCompletes ==
  \/ (fdmu = "sig" /\ fdmu' = "none")
  \/ (pc = "restore" /\ fdmu = "main" /\ fdmu' = "none")

C16_RestoreIdempotent ==
  [][/\ RestoreCompletes => term' = TermAtStart
     /\ (spc' = "exit" /\ pc' = "returned") => term' = TermAtStart]_vars

\* Both have run Restore, and a frame was written between the two.
C16_Witness ==
  /\ spc = "exit" /\ pc = "returned" /\ alive
  /\ Len(tty) > 2 /\ tty[1] = Home
  /\ Count(tty, {ShowCursor}) = 1

\* C17: the loop of Run has no exit of its own. From every call of the loop
\* body the main goroutine goes on to the next call of the cycle, the Wait
\* leading back to the Clear, and the process ends only in a step of a
\* signal: the default disposition before signal.Notify, os.Exit in the
\* signal goroutine after it.
LoopSucc ==
  {<<"clear", "backdrop">>, <<"backdrop", "cubes">>, <<"cubes", "render">>,
   <<"render", "print">>, <<"print", "update">>, <<"update", "wait">>,
   <<"wait", "clear">>}

C17_NoNormalExit ==
  [][/\ (alive /\ ~alive') => (Signal \/ SigExit)
     /\ (pc \in LoopCalls /\ pc' # pc) => <<pc, pc'>> \in LoopSucc]_vars

\* The loop went through a tick and the process was then ended by the
\* signal goroutine.
C17_Witness ==
  ~alive /\ spc = "exit" /\ frame >= 1 /\ pc \in LoopCalls

\* C18 as stated: every Wait completes, without an interrupt frames are
\* rendered again and again, and the main goroutine, whenever it cannot take
\* a step of its own, stands in the Wait.
Interrupted == sigch = 1 \/ spc \in {"restore", "exit"} \/ ~alive

GlyphsOfRow(s, n) ==
  Count(SubSeq(s, 1, n), {b \in {s[i] : i \in 1..n} : IsGlyphByte(b)} \ {Newline})

C19_FloorsApplied ==
  /\ cells # <<>> =>
       /\ Len(cells) = Max(cfg.given.Height, MinHeightCube)
       /\ \A y \in 1..Len(cells) :
            Len(cells[y]) = Max(cfg.given.Width, MinWidthCube)
  /\ pc = "print" =>
       /\ Count(Head(wq), {Newline}) = Max(cfg.given.Height, MinHeightCube)
       /\ \E n \in 1..Len(Head(wq)) :
            /\ Head(wq)[n] = Newline
            /\ Count(SubSeq(Head(wq), 1, n), {Newline}) = 1
            /\ GlyphsOfRow(Head(wq), n) = Max(cfg.given.Width, MinWidthCube)
       /\ GlyphsOfRow(Head(wq), Len(Head(wq))) =
            Max(cfg.given.Width, MinWidthCube)
              * Max(cfg.given.Height, MinHeightCube)

\* Run was handed width 10 and height -1, and the frame of the 48 by 24
\* buffer is ready to be written.
C19_Witness ==
  /\ pc = "print" /\ cfg.given.Width = 10 /\ cfg.given.Height = -1
  /\ Len(cells) = 24 /\ Len(cells[1]) = 48

\* C20: whatever delay the Config and the flag -delay hold, zero and
\* negative ones included, time.NewTicker is called with a positive duration
\* and does not panic.
C20_TickerPositive ==
  /\ pc # "panic"
  /\ pc = "ticker" => cfg.config.FrameDelay > 0
  /\ sim # NoSim => sim.ticker > 0

\* The Config held a delay that is not positive, the flag a negative one,
\* and the ticker was created with the fallback.
C20_Witness ==
  /\ sim # NoSim /\ sim.ticker = FallbackDelay
  /\ cfg.given.FrameDelay <= 0 /\ cfg.flag.delay < 0

\* C9: Render leaves the buffer as it was, and a Render right after a Render
\* writes the same bytes again.
C9_RenderPure ==
  [][(call'.op \in {"Render", "render"}) =>
       /\ cells' = cells /\ grid' = grid
       /\ (call.op \in {"Render", "render"} => out' = out)]_vars

\* Two Renders in a row of a painted buffer.
C9_Witness ==
  /\ scene = "cybercube" /\ prev = "Render" /\ call.op = "Render"
  /\ At(cells, 0, 0).glyph = "X"
  /\ out = RenderBytes(cells) /\ out # BlankFrame

\* Cells of a row whose colour is set and differs from the colour of the cell
\* before them in the row.
RECURSIVE ColorChanges(_, _)
ColorChanges(row, before) ==
  IF row = <<>> THEN 0
  ELSE (IF Head(row).color # NoColor /\ Head(row).color # before THEN 1 ELSE 0)
         + ColorChanges(Tail(row), Head(row).color)

RECURSIVE Colored(_)
Colored(row) ==
  IF row = <<>> THEN 0
  ELSE (IF Head(row).color # NoColor THEN 1 ELSE 0) + Colored(Tail(row))

RECURSIVE TotalChanges(_)
TotalChanges(rows) ==
  IF rows = <<>> THEN 0
  ELSE ColorChanges(Head(rows), NoColor) + TotalChanges(Tail(rows))

RECURSIVE TotalColored(_)
TotalColored(rows) ==
  IF rows = <<>> THEN 0 ELSE Colored(Head(rows)) + TotalColored(Tail(rows))

Rendered == call.op \in {"Render", "render"}

Population ==
  IF scene = "rain" THEN <<1, Len(sim.splashes)>>
  ELSE <<Len(sim.bubbles), Len(sim.plankton)>>

StartPopulation == IF scene = "rain" THEN <<1, 0>> ELSE <<0, 0>>

C21_PopulationConstant ==
  (scene \in PlainScenes /\ pc = "wait") => Population = StartPopulation

\* C22: a rain stream whose tail has passed the bottom of the buffer
\* (int(head) - length > height after the move) and a star whose projection
\* falls outside the buffer or whose depth has come down to minDepth are
\* reset in place in the same step, the lists keeping their lengths; after
\* updateStreams every stream has int(head) - length <= height.
StreamsStep == scene = "rain" /\ pc = "updateStreams" /\ sim' # sim

StarsStep == scene = "starfield" /\ pc = "drawStars" /\ pc' = "render"

IsResetStar(t) ==
  /\ ~t.hasPrev
  /\ [x |-> t.x, y |-> t.y, z |-> t.z, velocity |-> t.velocity] \in StarDraws

C22_ResetInPlace ==
  [][/\ StreamsStep =>
          /\ Len(sim'.streams) = Len(sim.streams)
          /\ \A i \in 1..Len(sim.streams) :
               LET s == sim.streams[i]
                   t == sim'.streams[i]
               IN /\ t.head - t.length <= Height
                  /\ IF (s.head + 1) - s.length > Height
                     THEN t \in ResetStreams(Width, Height, FALSE)
                     ELSE t = [s EXCEPT !.head = @ + 1]
     /\ StarsStep =>
          /\ Len(sim'.stars) = Len(sim.stars)
          /\ \A i \in 1..Len(sim.stars) :
               LET s == sim.stars[i]
                   t == sim'.stars[i]
                   p == projectStar(s, StarWidth, StarHeight)
               IN IF ~p.ok \/ s.z - s.velocity <= MinDepth
                  THEN IsResetStar(t)
                  ELSE /\ t.hasPrev /\ t.z = s.z - s.velocity
                       /\ t.x = s.x /\ t.y = s.y]_vars

\* A star drawn at the centre of the frame and reset in the same drawStars
\* because its depth came down to minDepth.
C22_Witness ==
  /\ scene = "starfield" /\ pc = "render"
  /\ ~sim.stars[1].hasPrev
  /\ sim.stars[1].prevX = StarWidth \div 2
  /\ sim.stars[1].prevY = StarHeight \div 2
  /\ At(grid, StarWidth \div 2, StarHeight \div 2).glyph = "*"

\* A stream reset by the last updateStreams, at its place in the list.
C22_StreamReset ==
  /\ scene = "rain"
  /\ \E i \in 1..Len(sim.streams) :
       /\ (sim.before[i].head + 1) - sim.before[i].length > Height
       /\ sim.streams[i].head <= 0

\* C23: when the -mode value matches no case of the switch, the program
\* prints its message and ends: the terminal gets no hide-cursor, no
\* clear-screen and no frame (no cursor-home), the cursor stays shown, and
\* what was printed is the message.
InSeq(b, s) == \E i \in 1..Len(s) : s[i] = b

C23_UnknownModeNoTerminal ==
  (ToLower(cfg.mode) \notin DOMAIN ModeCases) =>
    /\ scene = "main" /\ pc \in {"main", "returned"}
    /\ ~InSeq(HideCursor, tty) /\ ~InSeq(ClearScreen, tty) /\ ~InSeq(Home, tty)
    /\ term = TermAtStart
    /\ nwrites = 0
    /\ pc = "returned" => (out = UnknownModeText /\ tty = UnknownModeText)

C23_Witness ==
  cfg.mode = "bogus" /\ pc = "returned" /\ tty = UnknownModeText

\* C24: each mode the README lists for -mode starts that scene's loop and
\* does not take the unknown-mode path.
C24_ReadmeModesRun ==
  (cfg.mode \in ReadmeModes) => pc # "returned"

\* C25: after Clear and a sequence of in-bounds Set calls with non-space
\* glyphs, every cell that got a call stores the least depth among the calls
\* made to its coordinate, with the glyph and colour of the earliest call of
\* that depth; a cell that got none is unpainted.
CallsAt(x, y) == {i \in 1..Len(sim) : sim[i].x = x /\ sim[i].y = y}

LeastDepthAt(x, y) ==
  CHOOSE d \in {sim[i].depth : i \in CallsAt(x, y)} :
    \A i \in CallsAt(x, y) : d <= sim[i].depth

EarliestLeastAt(x, y) ==
  CHOOSE i \in CallsAt(x, y) :
    /\ sim[i].depth = LeastDepthAt(x, y)
    /\ \A j \in CallsAt(x, y) : sim[j].depth = LeastDepthAt(x, y) => i <= j

C25_LeastDepthEarliest ==
  \A x \in 0..(Width - 1), y \in 0..(Height - 1) :
    IF CallsAt(x, y) = {} THEN At(cells, x, y) = Unpainted
    ELSE LET c == sim[EarliestLeastAt(x, y)]
         IN At(cells, x, y) = Cell(c.glyph, c.color, c.depth)

\* Three calls to one cell, the second and third at the same depth below
\* the first and with different paint: the cell shows the second.
C25_Witness ==
  /\ Len(sim) = 3
  /\ sim[1].x = sim[2].x /\ sim[2].x = sim[3].x
  /\ sim[1].y = sim[2].y /\ sim[2].y = sim[3].y
  /\ sim[2].depth < sim[1].depth /\ sim[3].depth = sim[2].depth
  /\ sim[3].glyph # sim[2].glyph /\ sim[1].glyph # sim[2].glyph
  /\ At(cells, sim[2].x, sim[2].y) = Cell(sim[2].glyph, sim[2].color, sim[2].depth)

\* C26: the backdrop's cells, painted by SetIfEmpty, store the maximal depth,
\* so a cube Set (non-space glyph, finite depth) on such a cell replaces it:
\* in a cube frame a cell that got an in-bounds cube Set holds that call's
\* glyph, colour and depth or a nearer cube paint, never the backdrop's.
BackdropGlyphs == {".", ":"}

IsBackdropPaint(c) == c.glyph \in BackdropGlyphs /\ c.depth = MaxFloat64

CubeSetStep == scene = "cybercube" /\ pc = "cubes" /\ nops' = nops + 1

C26_CubeOverBackdrop ==
  [][/\ (scene = "cybercube" /\ pc = "backdrop" /\ pc' = "cubes") =>
          \A x \in 0..(Width - 1), y \in 0..(Height - 1) :
            At(cells', x, y).glyph # Space => IsBackdropPaint(At(cells', x, y))
     /\ CubeSetStep =>
          \A p \in Coords, glyph \in CubeGlyphs, color \in CubeColors,
             depth \in CubeDepths :
            (InBounds(cells, p[1], p[2])
               /\ cells' = GridSet(cells, p[1], p[2], glyph, color, depth)) =>
              /\ ~IsBackdropPaint(At(cells', p[1], p[2]))
              /\ IsBackdropPaint(At(cells, p[1], p[2])) =>
                   At(cells', p[1], p[2]) = Cell(glyph, color, depth)
     /\ (scene = "cybercube" /\ pc = "cubes") =>
          \A x \in 0..(Width - 1), y \in 0..(Height - 1) :
            ~IsBackdropPaint(At(cells, x, y)) => ~IsBackdropPaint(At(cells', x, y))
    ]_vars

\* A frame whose backdrop cell at the origin now shows a cube's vertex.
C26_Witness ==
  /\ scene = "cybercube" /\ pc = "render" /\ nops > 0
  /\ IsBackdropPaint(At(drawBackdrop(ClearCells(cells), frame), 0, 0))
  /\ At(cells, 0, 0).glyph = "O" /\ At(cells, 0, 0).depth < MaxFloat64

\* C27: an in-bounds Set or SetIfEmpty changes at most the cell at (x,y), and
\* no Set, SetIfEmpty, Clear or Render call changes the buffer's width or
\* height.
SameShape(g, h) ==
  /\ Len(h) = Len(g)
  /\ \A y \in 1..Len(g) : Len(h[y]) = Len(g[y])

C27_OneCellOnly ==
  [][scene = "cybercube" =>
       /\ SameShape(cells, cells')
       /\ Len(cells') = Height /\ \A y \in 1..Height : Len(cells'[y]) = Width
       /\ (call'.op \in {"Set", "SetIfEmpty"} /\ nops' = nops + 1
             /\ InBounds(cells, call'.x, call'.y)) =>
            \A x \in 0..(Width - 1), y \in 0..(Height - 1) :
              (x # call'.x \/ y # call'.y) => At(cells', x, y) = At(cells, x, y)
       /\ call'.op = "Render" => cells' = cells]_vars

\* An in-bounds Set that painted its cell beside a cell painted before, which
\* is as it was.
C27_Witness ==
  /\ scene = "cybercube" /\ call.op = "Set" /\ nops = 2
  /\ call.x = 1 /\ call.y = 0 /\ call.glyph = "Y"
  /\ At(cells, 1, 0).glyph = "Y"
  /\ At(cells, 0, 0).glyph = "X"

\* C28: once term.Start has written the hide-cursor sequence, a SIGINT or
\* SIGTERM delivered at any point up to the end of cleanup has the
\* show-cursor sequence written before the process ends: a process that has
\* ended has left the cursor shown.
C28_ShowBeforeExit == ~alive => term.cursor

\* The same for a signal that arrives after cleanup has called signal.Stop.
C28_AfterStop ==
  (~alive /\ pc = "restore") => term.cursor

\* C29 as stated: for every pair of end points linePoints ends and returns a
\* sequence from (x0,y0) to (x1,y1) of exactly max(|x1-x0|,|y1-y0|)+1 points,
\* consecutive ones differing by at most 1 in each coordinate.
LineSpan ==
  Max(Abs(sim.x1 - sim.from[1]), Abs(sim.y1 - sim.from[2]))

LineShape ==
  /\ ~sim.panic
  /\ Len(sim.points) <= LineSpan + 1
  /\ sim.points # <<>> => sim.points[1] = sim.from
  /\ \A i \in 1..(Len(sim.points) - 1) :
       /\ Abs(sim.points[i + 1][1] - sim.points[i][1]) <= 1
       /\ Abs(sim.points[i + 1][2] - sim.points[i][2]) <= 1
  /\ sim.done =>
       /\ Len(sim.points) = LineSpan + 1
       /\ sim.points[Len(sim.points)] = <<sim.x1, sim.y1>>

LineFits ==
  2 * (Abs(sim.x1 - sim.from[1]) + Abs(sim.y1 - sim.from[2])) <= MaxInt

SplashKept(sp) ==
  /\ 0 <= sp.x /\ sp.x < 100 * Width
  /\ sp.y < 100 * (Height - 1)
  /\ sp.life > 0

MovedSplashes(items) == [i \in 1..Len(items) |-> moveSplash(items[i])]

C30_SplashesEnd ==
  /\ \A i \in 1..Len(sim.splashes) :
       /\ sim.splashes[i].calls <= 18
       /\ sim.splashes[i].life > 0
  /\ pc = "drawStreams" =>
       sim.splashes = SelectSeq(MovedSplashes(sim.before), SplashKept)

\* A splash in its 18th call since emitSplash, the one before it in the list
\* of the call having been dropped on the last row.
C30_Witness ==
  /\ pc = "drawStreams"
  /\ Len(sim.before) = 2 /\ Len(sim.splashes) = 1
  /\ sim.splashes[1].calls = 18 /\ sim.splashes[1].life = 1
  /\ sim.before[1].life > 1
  /\ sim.before[1].x = sim.before[2].x

====
